---- MODULE Spec2Model ----
(***************************************************************************)
(* Vehicle maintenance web application.                                    *)
(*                                                                         *)
(*   Spec       the upload modal of the vehicle details page (LitElement   *)
(*              component) with its startUpload coroutines.                *)
(*   SpecLoad   the loadVehicleDetails / loadMaintenanceHistory coroutines *)
(*              of the page.                                               *)
(*   SpecOdometer  the odometer history of a telemetry answer and the      *)
(*              table rendered from it.                                    *)
(*   SpecRoute  the backend route POST /api/ai/extract-maintenance with    *)
(*              the maintenance_records table, the server starting and     *)
(*              running its migrations.                                    *)
(*   SpecQuery  the route GET /api/maintenance/:tokenId over the tables    *)
(*              the extraction route leaves.                               *)
(*   SpecMigrate  runMigrations on the databases a server may find.        *)
(*   SpecMoney  parseMoney over numbers, null and short strings.           *)
(*   SpecFence  the parsing of JSON objects wrapped in fences.             *)
(*   SpecParse  the fence stripping and JSON extraction applied to a model *)
(*              text, over all texts of a bounded length.                  *)
(*   SpecSvc    the OpenAIService methods and the remote calls they make.  *)
(*   SpecRetry  the upload modal and a configured service.                 *)
(*   SpecAi     the routes that hand an uploaded file or vehicle data to   *)
(*              the service.                                               *)
(*   SpecConfig the stored configuration and the routes that need it.      *)
(*                                                                         *)
(* Array indices keep the source's 0-based values; sequences are 1-based,  *)
(* so element i of the source is seq[i + 1].                               *)
(***************************************************************************)
EXTENDS Integers, Sequences, FiniteSets, TLC

VARIABLES
    \* ---- VehicleDetailsPage properties
    tokenId, vehicle, isLoading, error, showUploadModal, uploadFiles,
    uploadProgress, isUploading, maintenanceRecords,
    \* ---- VehicleDetailsPage coroutines and output
    loadPc,          \* position of the loadVehicleDetails coroutine
    loadTok,         \* tokenId the awaited fetch was issued for
    loadChain,       \* TRUE when updated() awaits it (loadMaintenanceHistory follows)
    histPending,     \* getMaintenanceRecords calls awaited by loadMaintenanceHistory
    runs,            \* startUpload coroutines, each awaiting extractMaintenanceInfo
    consoleError,    \* what the last step wrote to the console (errors, and the skip notice)
    backendData,     \* what getVehicleDetailsInfo answered in the current load
    odometerTable,   \* the rows of the odometer history table as last rendered
    \* ---- backend route /api/ai/extract-maintenance
    req, rows, nextId, response,
    \* ---- parsing of a model text
    text, routeParsed, planResult,
    \* ---- OpenAIService
    apiKey, svc,
    \* ---- parseMoney
    money,           \* the last call of parseMoney: its argument and its result
    \* ---- backend route /api/maintenance/:tokenId
    listing,         \* the request in progress and its response
    \* ---- the server process and its database
    schema,          \* the vehicle_maintenance schema: its table and columns
    server,          \* where startServer is, and the schema its first run left
    \* ---- backend routes /api/config, /api/auth/developer, /api/vehicle-details-info
    config           \* tmp/app-config.json, the requests in progress, the last answer

pageVars  == <<tokenId, vehicle, isLoading, error, showUploadModal, uploadFiles,
               uploadProgress, isUploading, maintenanceRecords, loadPc,
               loadTok, loadChain, histPending, runs, consoleError,
               backendData, odometerTable>>
routeVars == <<req, rows, nextId, response, listing, schema, server>>
parseVars == <<text, routeParsed, planResult>>
svcVars   == <<apiKey, svc>>
moneyVars == <<money>>
configVars == <<config>>
vars      == <<pageVars, routeVars, parseVars, svcVars, moneyVars, configVars>>

(***************************************************************************)
(* Bounds                                                                  *)
(***************************************************************************)
MaxFiles == 2        \* longest list of selected files
MaxRuns  == 2        \* startUpload coroutines alive at once
MaxHist  == 1        \* getMaintenanceRecords calls in flight at once

RunIds   == 1 .. MaxRuns
TokenIds == {"t1", "t2"}

\* Files a user can pick: name and whether addFiles accepts its type.
Files      == {"a.pdf", "b.png", "c.txt"}
ValidFiles == {"a.pdf", "b.png"}

\* Telemetry answers: lists of {timestamp, powertrainTransmissionTravelledDistance}.
SignalLists ==
    { <<>>,
      <<[timestamp |-> 1, km |-> 0]>>,
      <<[timestamp |-> 2, km |-> 12]>>,
      <<[timestamp |-> 2, km |-> 12], [timestamp |-> 1, km |-> 10]>> }

\* Answers of getMaintenanceRecords: the records field, or no such field.
RecordAnswers == {"absent", "r0", "r1"}

(***************************************************************************)
(* VehicleDetailsPage: loadVehicleDetails and loadMaintenanceHistory       *)
(***************************************************************************)
\* odometerSet is FALSE while the four odometer properties are undefined;
\* the values the record then carries stand for nothing.
NoVehicle ==
    [present |-> FALSE, tokenId |-> "", odometerSet |-> FALSE,
     odometerReading |-> 0, odometerTimestamp |-> 0, odometerUnit |-> "",
     odometerHistory |-> <<>>]

\* graphqlService.mapVehicleData: tokenId = vehicle.tokenId || vehicle.id
MapVehicleData(data) ==
    [present |-> TRUE, tokenId |-> data.id, odometerSet |-> FALSE,
     odometerReading |-> 0, odometerTimestamp |-> 0, odometerUnit |-> "",
     odometerHistory |-> <<>>]

\* signals.map(...): miles = km * 0.621371, kept exact in millionths of a mile.
MilesPerKmE6 == 621371
ToReading(signal) ==
    [timestamp |-> signal.timestamp, kilometers |-> signal.km,
     miles |-> signal.km * MilesPerKmE6]

\* An insertion that puts x before the readings of its own timestamp.
RECURSIVE InsertByTimestampStrict(_, _)
InsertByTimestampStrict(sorted, x) ==
    IF sorted = <<>> THEN <<x>>
    ELSE IF sorted[Len(sorted)].timestamp < x.timestamp THEN Append(sorted, x)
    ELSE Append(InsertByTimestampStrict(SubSeq(sorted, 1, Len(sorted) - 1), x),
                sorted[Len(sorted)])

\* Array.prototype.sort with (a, b) => a.timestamp - b.timestamp: stable.
RECURSIVE InsertByTimestamp(_, _)
InsertByTimestamp(sorted, x) ==
    IF sorted = <<>> THEN <<x>>
    ELSE IF sorted[Len(sorted)].timestamp <= x.timestamp THEN Append(sorted, x)
    ELSE Append(InsertByTimestamp(SubSeq(sorted, 1, Len(sorted) - 1), x),
                sorted[Len(sorted)])

RECURSIVE SortByTimestamp(_)
SortByTimestamp(s) ==
    IF s = <<>> THEN <<>>
    ELSE InsertByTimestamp(SortByTimestamp(SubSeq(s, 1, Len(s) - 1)), s[Len(s)])

OdometerHistory(signals) ==
    SortByTimestamp([j \in 1 .. Len(signals) |-> ToReading(signals[j])])

\* The reading with the most miles, the later one among equals.
RECURSIVE MaxMiles(_)
MaxMiles(history) ==
    IF Len(history) = 1 THEN history[1]
    ELSE LET rest == MaxMiles(SubSeq(history, 1, Len(history) - 1))
             last == history[Len(history)]
         IN  IF last.miles >= rest.miles THEN last ELSE rest

\* Current reading taken from the largest distance.
WithMaxOdometer(v, signals) ==
    LET history    == OdometerHistory(signals)
        lastSignal == MaxMiles(history)
    IN  [v EXCEPT !.odometerSet = TRUE,
                  !.odometerReading = lastSignal.miles,
                  !.odometerTimestamp = lastSignal.timestamp,
                  !.odometerUnit = "miles",
                  !.odometerHistory = history]

\* The odometer fields stored on this.vehicle when signals is non-empty.
WithOdometer(v, signals) ==
    LET history    == OdometerHistory(signals)
        lastSignal == history[Len(history)]
    IN  [v EXCEPT !.odometerSet = TRUE,
                  !.odometerReading = lastSignal.miles,
                  !.odometerTimestamp = lastSignal.timestamp,
                  !.odometerUnit = "miles",
                  !.odometerHistory = history]

\* An answer whose empty or missing signals list sets empty defaults.
AfterTelemetryDefaults(v, data) ==
    IF data.present /\ Len(data.signals) > 0 THEN WithOdometer(v, data.signals)
    ELSE [v EXCEPT !.odometerSet = TRUE, !.odometerUnit = "miles"]

\* if (backendData.telemetry?.data?.signals && signals.length > 0) { ... }
AfterTelemetry(v, data) ==
    IF data.present /\ Len(data.signals) > 0 THEN WithOdometer(v, data.signals)
    ELSE v

\* this.error = error.message || 'Failed to load vehicle details'
ErrorText(message) ==
    IF message # "" THEN message ELSE "Failed to load vehicle details"

\* What getVehicleById / the null check throw for each outcome of the fetch.
IdentityFailures == {"Vehicle not found", "Failed to fetch vehicle"}

\* loadVehicleDetails up to its first await.
LoadStart(tok, chain) ==
    /\ isLoading' = TRUE
    /\ error' = ""
    /\ loadPc' = "identity"
    /\ loadTok' = tok
    /\ loadChain' = chain
    /\ backendData' = <<>>

\* The finally block, and the loadMaintenanceHistory() call updated() makes
\* once loadVehicleDetails has returned.
LoadFinish ==
    /\ isLoading' = FALSE
    /\ loadPc' = "idle"
    /\ loadTok' = ""
    /\ loadChain' = FALSE
    /\ IF loadChain
         THEN histPending < MaxHist /\ histPending' = histPending + 1
         ELSE histPending' = histPending

uploadVars == <<showUploadModal, uploadFiles, uploadProgress, isUploading, runs>>

\* The host sets the tokenId property; updated(changedProperties) follows.
SetTokenId(t) ==
    /\ t # tokenId
    /\ tokenId' = t
    /\ IF t # "" /\ ~isLoading
         THEN LoadStart(t, TRUE)
         ELSE UNCHANGED <<isLoading, error, loadPc, loadTok, loadChain, backendData>>
    /\ consoleError' = "none"
    /\ UNCHANGED <<vehicle, maintenanceRecords, histPending, uploadVars, odometerTable>>

\* The "Try Again" button, rendered while this.error is non-empty.
RetryClick ==
    /\ error # ""
    /\ IF isLoading
         THEN UNCHANGED <<isLoading, error, loadPc, loadTok, loadChain, backendData>>
         ELSE LoadStart(tokenId, FALSE)
    /\ consoleError' = "none"
    /\ UNCHANGED <<tokenId, vehicle, maintenanceRecords, histPending, uploadVars,
                   odometerTable>>

\* loadVehicleDetails without its guard: a second execution starts while one
\* is awaiting.
LoadVehicleDetailsUnguarded ==
    /\ LoadStart(tokenId, FALSE)
    /\ consoleError' = IF isLoading THEN "skipped" ELSE "none"
    /\ UNCHANGED <<tokenId, vehicle, maintenanceRecords, histPending, uploadVars,
                   odometerTable>>

\* loadVehicleDetails() called on the element by any caller, at any moment:
\* if (this.isLoading) { console.log('... already in progress, skipping');
\* return }
LoadVehicleDetails ==
    /\ IF isLoading
         THEN /\ consoleError' = "skipped"
              /\ UNCHANGED <<isLoading, error, loadPc, loadTok, loadChain, backendData>>
         ELSE /\ consoleError' = "none"
              /\ LoadStart(tokenId, FALSE)
    /\ UNCHANGED <<tokenId, vehicle, maintenanceRecords, histPending, uploadVars,
                   odometerTable>>

\* graphqlService.getVehicleById settles.
IdentityResponse(outcome) ==
    /\ loadPc = "identity"
    /\ IF outcome = "vehicle"
         THEN /\ vehicle' = MapVehicleData([id |-> loadTok])
              /\ loadPc' = "telemetry"
              /\ loadTok' = tokenId
              /\ consoleError' = "none"
              /\ UNCHANGED <<isLoading, error, loadChain, histPending>>
         ELSE /\ error' = ErrorText(outcome)
              /\ consoleError' = "load"
              /\ LoadFinish
              /\ UNCHANGED vehicle
    /\ UNCHANGED <<tokenId, maintenanceRecords, uploadVars, backendData, odometerTable>>

\* An answer of getVehicleDetailsInfo: it throws, it has no signals field,
\* or it has a signals list.
Answer(signals) == [throws |-> FALSE, present |-> TRUE, signals |-> signals]
NoSignals       == [throws |-> FALSE, present |-> FALSE, signals |-> <<>>]
Thrown          == [throws |-> TRUE, present |-> FALSE, signals |-> <<>>]

\* dimoApiService.getVehicleDetailsInfo settles.
TelemetryOutcomes == {Thrown, NoSignals} \cup {Answer(l) : l \in SignalLists}

TelemetryResponse(outcome) ==
    /\ loadPc = "telemetry"
    /\ backendData' = <<outcome>>
    /\ IF outcome.throws
         THEN consoleError' = "telemetry" /\ UNCHANGED vehicle
         ELSE /\ consoleError' = "none"
              /\ vehicle' = AfterTelemetry(vehicle, outcome)
    /\ LoadFinish
    /\ UNCHANGED <<tokenId, error, maintenanceRecords, uploadVars, odometerTable>>

\* dimoApiService.getMaintenanceRecords settles inside loadMaintenanceHistory.
HistoryResponse(outcome) ==
    /\ histPending > 0
    /\ histPending' = histPending - 1
    /\ IF outcome = "throw"
         THEN consoleError' = "records" /\ UNCHANGED maintenanceRecords
         ELSE /\ consoleError' = "none"
              /\ maintenanceRecords' = IF outcome = "absent" THEN "r0" ELSE outcome
    /\ UNCHANGED <<tokenId, vehicle, isLoading, error, loadPc, loadTok, loadChain,
                   uploadVars, backendData, odometerTable>>

(***************************************************************************)
(* VehicleDetailsPage: the odometer history table                          *)
(*                                                                         *)
(* Miles are exact, in millionths of a mile; what toLocaleString shows has *)
(* at most three fraction digits and is kept in thousandths.               *)
(***************************************************************************)
MaxSignals == 3      \* longest signals list enumerated

\* Kilometre readings stay below 3456 so that a reading in millionths of a
\* mile is within TLC's integers.
Timestamps == 1 .. 3
Kms        == {1000, 1100, 1200}
Samples    == [timestamp : Timestamps, km : Kms]
SignalSeqs == UNION {[1 .. n -> Samples] : n \in 0 .. MaxSignals}

Abs(x) == IF x < 0 THEN 0 - x ELSE x

\* Number.prototype.toLocaleString(): rounded to three fraction digits.
ToLocaleString(x) ==
    LET r == (Abs(x) + 500) \div 1000
    IN  IF x < 0 THEN 0 - r ELSE r

\* Rows whose distance is counted from the first reading.
OdometerRowsFromFirst(v) ==
    IF ~(v.odometerSet /\ Len(v.odometerHistory) > 0) THEN <<>>
    ELSE [index \in 1 .. Len(v.odometerHistory) |->
            LET reading          == v.odometerHistory[index]
                previousReading  == IF index > 1 THEN v.odometerHistory[1].miles ELSE 0
                distanceTraveled == reading.miles - previousReading
            IN  [reading |-> ToLocaleString(reading.miles),
                 distanceTraveled |-> distanceTraveled,
                 placeholder |-> index = 1,
                 distance |-> ToLocaleString(distanceTraveled)]]

\* this.vehicle.odometerHistory.map((reading, index) => ...): the third cell
\* is the placeholder for index 0, else "+" and the distance.
OdometerRows(v) ==
    IF ~(v.odometerSet /\ Len(v.odometerHistory) > 0) THEN <<>>
    ELSE [index \in 1 .. Len(v.odometerHistory) |->
            LET reading          == v.odometerHistory[index]
                previousReading  == IF index > 1 THEN v.odometerHistory[index - 1].miles
                                    ELSE 0
                distanceTraveled == reading.miles - previousReading
            IN  [reading |-> ToLocaleString(reading.miles),
                 distanceTraveled |-> distanceTraveled,
                 placeholder |-> index = 1,
                 distance |-> ToLocaleString(distanceTraveled)]]

\* render() of a loaded page: the odometer history card.
Render ==
    /\ ~isLoading /\ vehicle.present
    /\ odometerTable' = OdometerRows(vehicle)
    /\ consoleError' = "none"
    /\ UNCHANGED <<tokenId, vehicle, isLoading, error, loadPc, loadTok, loadChain,
                   backendData, maintenanceRecords, histPending, uploadVars>>

(***************************************************************************)
(* VehicleDetailsPage: the upload modal                                    *)
(***************************************************************************)
NullResponse == [kind |-> "null", error |-> ""]

\* A startUpload coroutine.  i and file are its locals; the other fields
\* record its history: the number of extractMaintenanceInfo calls it has
\* issued (attempts), whether any modal handler ran while it was awaiting
\* (clean is then FALSE) and whether closeUploadModal did (stale), whether
\* no other coroutine was awaiting when it began (alone), and, as long as
\* it is clean, the files selected when it began and the files it has sent
\* so far.
NoRun ==
    [active |-> FALSE, i |-> 0, file |-> "", attempts |-> 0, clean |-> TRUE,
     stale |-> FALSE, alone |-> TRUE, files0 |-> <<>>, sent |-> <<>>]

ActiveRuns == {k \in RunIds : runs[k].active}

\* A modal handler runs while coroutines are awaiting.
Touched(closing) ==
    [k \in RunIds |->
        IF runs[k].active
          THEN [runs[k] EXCEPT !.clean = FALSE, !.stale = @ \/ closing,
                               !.files0 = <<>>, !.sent = <<>>]
          ELSE runs[k]]

\* const file = this.uploadFiles[i]
FileAt(files, i) == files[i + 1]

\* progressItem of startUpload
ProgressItem(file) ==
    [filename |-> file, status |-> "uploading", percent |-> 0,
     response |-> NullResponse]

\* updateProgress(index, updates): { ...item, ...updates } at index, if any.
UpdateProgress(progress, index, updates) ==
    [j \in 1 .. Len(progress) |->
        IF j = index + 1
          THEN [f \in DOMAIN progress[j] |->
                   IF f \in DOMAIN updates THEN updates[f] ELSE progress[j][f]]
          ELSE progress[j]]

\* The loop body of startUpload up to the await, for index i.
BeginFile(progress, i, file) ==
    UpdateProgress(Append(progress, ProgressItem(file)), i,
                   [status |-> "uploading", percent |-> 50])

\* The updateProgress call after the await: completed, or error in the catch.
Settle(progress, i, outcome) ==
    IF outcome.throws
      THEN UpdateProgress(progress, i,
               [status |-> "error", percent |-> 100,
                response |-> [kind |-> "error", error |-> outcome.message]])
      ELSE UpdateProgress(progress, i,
               [status |-> "completed", percent |-> 100,
                response |-> [kind |-> "result", error |-> ""]])

UploadOutcomes ==
    {[throws |-> FALSE, message |-> ""], [throws |-> TRUE, message |-> "Upload failed"]}

loadVars == <<tokenId, vehicle, isLoading, error, loadPc, loadTok, loadChain,
              backendData, odometerTable>>

\* The "Upload Invoices" button of the vehicle content.
OpenUploadModal ==
    /\ ~isLoading /\ vehicle.present /\ ~showUploadModal
    /\ showUploadModal' = TRUE
    /\ uploadFiles' = <<>>
    /\ uploadProgress' = <<>>
    /\ isUploading' = FALSE
    /\ runs' = Touched(FALSE)
    /\ consoleError' = "none"
    /\ UNCHANGED <<loadVars, maintenanceRecords, histPending>>

\* Cancel, the close button or a click on the overlay.
CloseUploadModal ==
    /\ showUploadModal
    /\ histPending < MaxHist
    /\ showUploadModal' = FALSE
    /\ uploadFiles' = <<>>
    /\ uploadProgress' = <<>>
    /\ isUploading' = FALSE
    /\ histPending' = histPending + 1
    /\ runs' = Touched(TRUE)
    /\ consoleError' = "none"
    /\ UNCHANGED <<loadVars, maintenanceRecords>>

\* files.filter(...) of addFiles
ValidOnly(files) == SelectSeq(files, LAMBDA f : f \in ValidFiles)

\* handleFileSelect / handleDrop: the picked files go through addFiles.
AddFiles(files) ==
    /\ showUploadModal
    /\ Len(uploadFiles) + Len(ValidOnly(files)) <= MaxFiles
    /\ uploadFiles' = uploadFiles \o ValidOnly(files)
    /\ runs' = Touched(FALSE)
    /\ consoleError' = "none"
    /\ UNCHANGED <<loadVars, maintenanceRecords, histPending, showUploadModal,
                   uploadProgress, isUploading>>

\* this.uploadFiles.filter((_, i) => i !== index)
RemoveAt(files, index) ==
    [j \in 1 .. Len(files) - 1 |-> IF j < index + 1 THEN files[j] ELSE files[j + 1]]

\* The remove button of row index in the file list.
RemoveFile(index) ==
    /\ showUploadModal
    /\ index \in 0 .. Len(uploadFiles) - 1
    /\ uploadFiles' = RemoveAt(uploadFiles, index)
    /\ runs' = Touched(FALSE)
    /\ consoleError' = "none"
    /\ UNCHANGED <<loadVars, maintenanceRecords, histPending, showUploadModal,
                   uploadProgress, isUploading>>

\* The upload button (disabled while no file is selected or isUploading):
\* startUpload up to its first await.
StartUpload ==
    /\ showUploadModal
    /\ ~(Len(uploadFiles) = 0 \/ isUploading)
    /\ \E k \in RunIds :
        /\ ~runs[k].active
        /\ \A j \in RunIds : j < k => runs[j].active
        /\ LET file == FileAt(uploadFiles, 0)
           IN  /\ uploadProgress' = BeginFile(<<>>, 0, file)
               /\ runs' = [Touched(FALSE) EXCEPT ![k] =
                              [active |-> TRUE, i |-> 0, file |-> file,
                               attempts |-> 1, clean |-> TRUE, stale |-> FALSE,
                               alone |-> ActiveRuns = {},
                               files0 |-> uploadFiles, sent |-> <<file>>]]
    /\ isUploading' = TRUE
    /\ consoleError' = "none"
    /\ UNCHANGED <<loadVars, maintenanceRecords, histPending, showUploadModal,
                   uploadFiles>>

\* A loop that repeated the iteration whose upload threw.
NextIndexRetry(i, outcome) == IF outcome.throws THEN i ELSE i + 1

\* i++ of the for loop: the catch block falls through to it as well.
NextIndex(i, outcome) == i + 1

\* dimoApiService.extractMaintenanceInfo settles for coroutine k: the rest of
\* the loop body, then the next iteration up to its await or the loop's end.
UploadResponse(k, outcome) ==
    /\ runs[k].active
    /\ LET i       == runs[k].i
           settled == Settle(uploadProgress, i, outcome)
           n       == NextIndex(i, outcome)
       IN  IF n < Len(uploadFiles)
             THEN LET file == FileAt(uploadFiles, n)
                  IN  /\ uploadProgress' = BeginFile(settled, n, file)
                      /\ runs' = [runs EXCEPT
                                    ![k].i = n, ![k].file = file,
                                    ![k].attempts = @ + 1,
                                    ![k].sent = IF runs[k].clean THEN Append(@, file)
                                                ELSE <<>>]
                      /\ UNCHANGED <<isUploading, uploadFiles>>
             ELSE /\ uploadProgress' = settled
                  /\ isUploading' = FALSE
                  /\ uploadFiles' = <<>>
                  /\ runs' = [runs EXCEPT ![k] = NoRun]
    /\ consoleError' = IF outcome.throws THEN "upload" ELSE "none"
    /\ UNCHANGED <<loadVars, maintenanceRecords, histPending, showUploadModal>>

(***************************************************************************)
(* The page as a state machine                                             *)
(***************************************************************************)
\* Lists of files one pick or drop delivers.
Picks == {<<f>> : f \in Files} \cup {<<"a.pdf", "b.png">>}

\* The component as constructed.
InitPage ==
    /\ tokenId = ""
    /\ vehicle = NoVehicle
    /\ isLoading = FALSE
    /\ error = ""
    /\ showUploadModal = FALSE
    /\ uploadFiles = <<>>
    /\ uploadProgress = <<>>
    /\ isUploading = FALSE
    /\ maintenanceRecords = "r0"
    /\ loadPc = "idle"
    /\ loadTok = ""
    /\ loadChain = FALSE
    /\ histPending = 0
    /\ runs = [k \in RunIds |-> NoRun]
    /\ consoleError = "none"
    /\ backendData = <<>>
    /\ odometerTable = <<>>

\* The page once a vehicle has been loaded and its history has arrived.
InitLoaded ==
    /\ tokenId = "t1"
    /\ vehicle = MapVehicleData([id |-> "t1"])
    /\ isLoading = FALSE
    /\ error = ""
    /\ showUploadModal = FALSE
    /\ uploadFiles = <<>>
    /\ uploadProgress = <<>>
    /\ isUploading = FALSE
    /\ maintenanceRecords = "r0"
    /\ loadPc = "idle"
    /\ loadTok = ""
    /\ loadChain = FALSE
    /\ histPending = 0
    /\ runs = [k \in RunIds |-> NoRun]
    /\ consoleError = "none"
    /\ backendData = <<>>
    /\ odometerTable = <<>>

\* A load that has mapped its vehicle and awaits getVehicleDetailsInfo.
InitAwaitingTelemetry ==
    /\ tokenId = "t1"
    /\ vehicle = MapVehicleData([id |-> "t1"])
    /\ isLoading = TRUE
    /\ error = ""
    /\ showUploadModal = FALSE
    /\ uploadFiles = <<>>
    /\ uploadProgress = <<>>
    /\ isUploading = FALSE
    /\ maintenanceRecords = "r0"
    /\ loadPc = "telemetry"
    /\ loadTok = "t1"
    /\ loadChain = TRUE
    /\ histPending = 0
    /\ runs = [k \in RunIds |-> NoRun]
    /\ consoleError = "none"
    /\ backendData = <<>>
    /\ odometerTable = <<>>

\* The telemetry answer, over every signals list, and the rendering.
NextOdometer ==
    \/ \E l \in SignalSeqs : TelemetryResponse(Answer(l))
    \/ Render

HistoryAnswers == RecordAnswers \cup {"throw"}

\* The upload modal of a loaded page.
NextUpload ==
    \/ OpenUploadModal
    \/ CloseUploadModal
    \/ \E files \in Picks : AddFiles(files)
    \/ \E index \in 0 .. MaxFiles - 1 : RemoveFile(index)
    \/ StartUpload
    \/ \E k \in RunIds, o \in UploadOutcomes : UploadResponse(k, o)
    \/ \E o \in HistoryAnswers : HistoryResponse(o)

\* Loading: tokenId changes, retries and the fetches settling.
NextLoad ==
    \/ \E t \in TokenIds : SetTokenId(t)
    \/ RetryClick
    \/ LoadVehicleDetails
    \/ \E o \in IdentityFailures \cup {"vehicle"} : IdentityResponse(o)
    \/ \E o \in TelemetryOutcomes : TelemetryResponse(o)
    \/ \E o \in HistoryAnswers : HistoryResponse(o)

(***************************************************************************)
(* Model texts and their parsing                                           *)
(*                                                                         *)
(* A text is a sequence of tokens: the braces, members of an object (a     *)
(* whole "key": value pair, or "k:" followed by a nested value), the       *)
(* number 1, a character that is not JSON (x), whitespace, a fence of      *)
(* three backquotes and the word json.  A parsed value is the token     *)
(* sequence of the value without its whitespace; <<>> stands for null.     *)
(***************************************************************************)
MaxLen == 4          \* longest text enumerated

Atoms    == {"plan:[]", "plan:1", "date:d1", "date:d2", "date:n/a", "totalCost:12",
             "totalCost:0",
             "serviceType:oil"}
Alphabet == {"{", "}", "plan:[]", "plan:1", "k:", "1", "x", " ", "fence", "json"}

Texts == UNION {[1 .. n -> Alphabet] : n \in 0 .. MaxLen}

JsonNull == <<>>

\* First position from p on that holds no whitespace (Len(s) + 1 if none).
RECURSIVE SkipWs(_, _)
SkipWs(s, p) == IF p <= Len(s) /\ s[p] = " " THEN SkipWs(s, p + 1) ELSE p

Closes(s, r) == r <= Len(s) /\ s[r] = "}"

\* The position after the JSON value that starts at p, 0 if none does.
RECURSIVE EndOfValue(_, _)
EndOfValue(s, p) ==
    IF p > Len(s) THEN 0
    ELSE IF s[p] = "1" THEN p + 1
    ELSE IF s[p] # "{" THEN 0
    ELSE LET q == SkipWs(s, p + 1)
         IN  IF q > Len(s) THEN 0
             ELSE IF s[q] = "}" THEN q + 1
             ELSE IF s[q] \in Atoms
                    THEN LET r == SkipWs(s, q + 1)
                         IN  IF Closes(s, r) THEN r + 1 ELSE 0
             ELSE IF s[q] = "k:"
                    THEN LET e == EndOfValue(s, SkipWs(s, q + 1))
                             r == SkipWs(s, e)
                         IN  IF e # 0 /\ Closes(s, r) THEN r + 1 ELSE 0
             ELSE 0

WithoutWs(s) == SelectSeq(s, LAMBDA c : c # " ")

\* JSON.parse: the whole text is one value between optional whitespace.
JsonParse(s) ==
    LET e == EndOfValue(s, SkipWs(s, 1))
    IN  IF e # 0 /\ SkipWs(s, e) = Len(s) + 1
          THEN [ok |-> TRUE, value |-> WithoutWs(s)]
          ELSE [ok |-> FALSE, value |-> JsonNull]

\* String.prototype.trim
RECURSIVE TrimEnd(_)
TrimEnd(s) ==
    IF s # <<>> /\ s[Len(s)] = " " THEN TrimEnd(SubSeq(s, 1, Len(s) - 1)) ELSE s

From(s, p) == SubSeq(s, p, Len(s))

Trim(s) == TrimEnd(From(s, SkipWs(s, 1)))

\* .replace(/^[fence]json\s*/i, "")
StripJsonFence(s) ==
    IF Len(s) >= 2 /\ s[1] = "fence" /\ s[2] = "json" THEN From(s, SkipWs(s, 3)) ELSE s

\* A pattern that takes a language tag with the fence: the fence and the
\* characters up to the next whitespace.
StripOpenFenceWord(s) ==
    IF Len(s) >= 1 /\ s[1] = "fence"
      THEN IF Len(s) >= 2 /\ s[2] # " " THEN From(s, SkipWs(s, 3)) ELSE From(s, SkipWs(s, 2))
      ELSE s

\* .replace(/^[fence]\s*/i, "")
StripOpenFence(s) ==
    IF Len(s) >= 1 /\ s[1] = "fence" THEN From(s, SkipWs(s, 2)) ELSE s

\* .replace(/[fence]\s*$/i, ""): the fence that only whitespace follows.
StripCloseFence(s) ==
    LET t == TrimEnd(s)
    IN  IF t # <<>> /\ t[Len(t)] = "fence" THEN SubSeq(t, 1, Len(t) - 1) ELSE s

Cleaned(raw) == StripCloseFence(StripOpenFence(StripJsonFence(Trim(raw))))

Positions(s, c) == {p \in 1 .. Len(s) : s[p] = c}
Min(S) == CHOOSE m \in S : \A n \in S : m <= n
Max(S) == CHOOSE m \in S : \A n \in S : m >= n

\* cleaned.match(/\{[\s\S]*\}/): from the first "{" to the last "}".
BraceMatch(s) ==
    LET opens  == Positions(s, "{")
        closes == Positions(s, "}")
    IN  IF opens # {} /\ closes # {} /\ Max(closes) > Min(opens)
          THEN [found |-> TRUE, match |-> SubSeq(s, Min(opens), Max(closes))]
          ELSE [found |-> FALSE, match |-> <<>>]

\* try { JSON.parse(cleaned) } catch { match and JSON.parse(match[0]) }
ParseModelJson(cleaned) ==
    LET direct == JsonParse(cleaned)
        m      == BraceMatch(cleaned)
    IN  IF direct.ok THEN direct.value
        ELSE IF m.found THEN JsonParse(m.match).value
        ELSE JsonNull

\* parsed.plan of a parsed value: the top-level member, if it is plan.
PlanKind(value) ==
    IF Len(value) >= 2 /\ value[1] = "{" /\ value[2] = "plan:[]" THEN "array"
    ELSE IF Len(value) >= 2 /\ value[1] = "{" /\ value[2] = "plan:1" THEN "number"
    ELSE "undefined"

\* A check that accepts any plan field.
PlanPresent(parsed) == parsed # JsonNull /\ PlanKind(parsed) # "undefined"

\* parsed && Array.isArray(parsed.plan)
PlanIsArray(parsed) == parsed # JsonNull /\ PlanKind(parsed) = "array"

\* generateUpcomingServices after a successful processPrompt with this content.
PlanFromContent(content) ==
    LET parsed == ParseModelJson(Cleaned(content))
    IN  IF ~PlanIsArray(parsed)
          THEN [success |-> FALSE, error |-> "Failed to parse upcoming services JSON",
                content |-> content]
          ELSE [success |-> TRUE, error |-> "", content |-> parsed]

Pending     == <<"pending">>
PendingPlan == [success |-> FALSE, error |-> "pending", content |-> <<>>]

\* The route's parsing steps applied to the text.
ParseForRoute ==
    /\ routeParsed = Pending
    /\ routeParsed' = ParseModelJson(Cleaned(text))
    /\ UNCHANGED <<text, planResult>>

\* generateUpcomingServices' parsing and validation applied to the text.
ParseForPlan ==
    /\ planResult = PendingPlan
    /\ planResult' = PlanFromContent(text)
    /\ UNCHANGED <<text, routeParsed>>

InitTexts ==
    /\ text \in Texts
    /\ routeParsed = Pending
    /\ planResult = PendingPlan

MaxDepth == 1        \* deepest nesting of the objects wrapped in fences

\* The texts of JSON objects nested at most d deep, with and without
\* whitespace inside the braces.  One member stands for those that differ
\* only in what the route makes of their value.
RECURSIVE Objects(_)
Objects(d) ==
    LET pad(m)  == {<<"{">> \o m \o <<"}">>, <<"{", " ">> \o m \o <<" ", "}">>}
        members == Atoms \ {"date:n/a", "totalCost:0"}
    IN  IF d = 0
          THEN pad(<<>>) \cup UNION {pad(<<a>>) : a \in members}
          ELSE Objects(0)
                 \cup UNION {pad(<<"k:">> \o v) : v \in Objects(d - 1) \cup {<<"1">>}}

\* The model text that wraps J in a fence: the opening fence with or without
\* the word json, and whitespace where a model may put it.
Wrap(w, J) == w.lead \o w.open \o w.before \o J \o w.after \o <<"fence">> \o w.trail

Wrappers ==
    LET spaces == {<<>>, <<" ">>}
    IN  [lead : spaces, open : {<<"fence", "json">>, <<"fence">>}, before : spaces,
         after : spaces, trail : spaces]

(***************************************************************************)
(* OpenAIService                                                           *)
(*                                                                         *)
(* svc is the method call in progress: the public method, the document     *)
(* path, the position (an await, or done), how often each remote endpoint  *)
(* has been called for it, and its result.  A content is the shape of the  *)
(* value with the model text it carries.                                   *)
(***************************************************************************)
Methods ==
    {"processImageWithPromptAndModel", "processPDFWithPromptAndModel",
     "processPrompt", "extractMaintenanceInfo", "generateUpcomingServices"}

DocumentPaths == {"doc.pdf", "doc.png"}

\* Model answers used where a whole request is followed.
SampleTexts ==
    { <<"{", "date:d1", "}">>,
      <<"{", "date:d2", "}">>,
      <<"fence", "json", " ", "{", "plan:[]", "}", " ", "fence">>,
      <<"x", "{", "plan:1", "}">>,
      <<"{", "serviceType:oil", "}", "x", "{", "}">>,
      <<"{", "totalCost:12", "}">>,
      <<"{", "totalCost:0", "}">>,
      <<"{", "date:n/a", "}">>,
      <<"x", "x">> }

NoContent == [shape |-> "none", text |-> <<>>]
NoCalls   == [chat |-> 0, files |-> 0, responses |-> 0]
NoResult  == [success |-> FALSE, error |-> "", content |-> NoContent]

NotConfigured ==
    "OpenAI API key not configured. Please set OPENAI_API_KEY environment variable."

RemoteErrors == {"Request failed", "ENOENT"}

Failure(message) == [success |-> FALSE, error |-> message, content |-> NoContent]

IdleSvcCall ==
    [pc |-> "idle", method |-> "", path |-> "", calls |-> NoCalls, result |-> NoResult]

\* A constructor that builds the client whatever the key.
AlwaysClient(key) == TRUE

\* this.client = this.apiKey ? new OpenAI(...) : null
HasClient(key) == key # ""

\* documentPath.toLowerCase().endsWith('.pdf')
IsPDF(path) == path = "doc.pdf"

\* Which of the three processing methods a public method runs.
Processing(method, path) ==
    IF method = "extractMaintenanceInfo"
      THEN (IF IsPDF(path) THEN "processPDFWithPromptAndModel"
            ELSE "processImageWithPromptAndModel")
    ELSE IF method = "generateUpcomingServices" THEN "processPrompt"
    ELSE method

\* A method is called: it runs up to its first await, or returns at once.
SvcCall(method, path) ==
    /\ svc.pc \in {"idle", "done"}
    /\ LET proc == Processing(method, path)
           call == [IdleSvcCall EXCEPT !.method = method, !.path = path]
       IN  svc' =
             IF ~HasClient(apiKey)
               THEN [call EXCEPT !.pc = "done", !.result = Failure(NotConfigured)]
             ELSE IF proc = "processImageWithPromptAndModel"
               THEN [call EXCEPT !.pc = "readFile"]
             ELSE IF proc = "processPDFWithPromptAndModel"
               THEN [call EXCEPT !.pc = "files.create", !.calls.files = 1]
             ELSE [call EXCEPT !.pc = "chat.completions.create", !.calls.chat = 1]
    /\ UNCHANGED apiKey

\* fs.readFile(imagePath) settles.
ReadFileDone(outcome) ==
    /\ svc.pc = "readFile"
    /\ svc' = IF outcome = "ok"
                THEN [svc EXCEPT !.pc = "chat.completions.create",
                                 !.calls.chat = @ + 1]
                ELSE [svc EXCEPT !.pc = "done", !.result = Failure(outcome)]
    /\ UNCHANGED apiKey

\* What generateUpcomingServices returns for the content processPrompt got.
WrapPlan(r) ==
    [success |-> r.success, error |-> r.error,
     content |-> [shape |-> IF r.success THEN "parsed" ELSE "string",
                  text |-> r.content]]

\* client.chat.completions.create settles.
ChatDone(outcome) ==
    /\ svc.pc = "chat.completions.create"
    /\ svc' = IF outcome.throws
                THEN [svc EXCEPT !.pc = "done", !.result = Failure(outcome.message)]
              ELSE IF svc.method = "generateUpcomingServices"
                THEN [svc EXCEPT !.pc = "done",
                                 !.result = WrapPlan(PlanFromContent(outcome.text))]
              ELSE [svc EXCEPT !.pc = "done",
                               !.result = [success |-> TRUE, error |-> "",
                                           content |-> [shape |-> "string",
                                                        text |-> outcome.text]]]
    /\ UNCHANGED apiKey

\* client.files.create settles.
FilesDone(outcome) ==
    /\ svc.pc = "files.create"
    /\ svc' = IF outcome = "ok"
                THEN [svc EXCEPT !.pc = "responses.create",
                                 !.calls.responses = @ + 1]
                ELSE [svc EXCEPT !.pc = "done", !.result = Failure(outcome)]
    /\ UNCHANGED apiKey

\* client.responses.create settles: the content is the whole response.
ResponsesDone(outcome) ==
    /\ svc.pc = "responses.create"
    /\ svc' = IF outcome.throws
                THEN [svc EXCEPT !.pc = "done", !.result = Failure(outcome.message)]
                ELSE [svc EXCEPT !.pc = "done",
                                 !.result = [success |-> TRUE, error |-> "",
                                             content |-> [shape |-> "response",
                                                          text |-> outcome.text]]]
    /\ UNCHANGED apiKey

ModelOutcomes ==
    {[throws |-> TRUE, message |-> m, text |-> <<>>] : m \in RemoteErrors}
        \cup {[throws |-> FALSE, message |-> "", text |-> t] : t \in SampleTexts}

NextSvc ==
    \/ \E m \in Methods, path \in DocumentPaths : SvcCall(m, path)
    \/ \E o \in RemoteErrors \cup {"ok"} : ReadFileDone(o)
    \/ \E o \in ModelOutcomes : ChatDone(o)
    \/ \E o \in RemoteErrors \cup {"ok"} : FilesDone(o)
    \/ \E o \in ModelOutcomes : ResponsesDone(o)

\* createOpenAIService(process.env.OPENAI_API_KEY): the key may be unset.
InitSvc == apiKey \in {"", "sk-test"} /\ svc = IdleSvcCall

(***************************************************************************)
(* POST /api/ai/extract-maintenance and the maintenance_records table      *)
(*                                                                         *)
(* req is the request being handled: its position, the uploaded file's     *)
(* path in tmp/uploads and whether it is still there, the tokenId sent,    *)
(* the service result, the values computed for the INSERT, whether the     *)
(* store could be reached and how the INSERT ended.  A nullable value is   *)
(* <<>> (null) or <<v>>.                                                   *)
(***************************************************************************)
MaxRows == 2         \* rows the table holds before requests stop

Null == <<>>

\* tokenId as sent in the body, the query or the x-token-id header.
RawTokenIds == {"", "0", "7", "8", "abc"}

\* parseInt(raw || '0', 10): <<n>>, or <<>> for NaN.
ParseInt(raw) ==
    IF raw = "" \/ raw = "0" THEN <<0>>
    ELSE IF raw = "7" THEN <<7>>
    ELSE IF raw = "8" THEN <<8>>
    ELSE <<>>

\* parseInt(...) || null
TokenIdOf(raw) ==
    LET n == ParseInt(raw)
    IN  IF n = <<>> \/ n = <<0>> THEN Null ELSE n

\* outputText: ai.output_text of a response object, the string itself for a
\* string content.
OutputText(ai) ==
    IF ai.shape = "response" THEN ai.text
    ELSE IF ai.shape = "string" THEN ai.text
    ELSE <<>>

\* Key and value of a member token.
MemberKey(atom) ==
    IF atom \in {"date:d1", "date:d2", "date:n/a"} THEN "date"
    ELSE IF atom \in {"totalCost:12", "totalCost:0"} THEN "totalCost"
    ELSE IF atom = "serviceType:oil" THEN "serviceType"
    ELSE "plan"

MemberValue(atom) ==
    IF atom = "date:d1" THEN "d1"
    ELSE IF atom = "date:d2" THEN "d2"
    ELSE IF atom = "date:n/a" THEN "n/a"
    ELSE IF atom = "totalCost:12" THEN "12"
    ELSE IF atom = "totalCost:0" THEN "0"
    ELSE IF atom = "serviceType:oil" THEN "oil"
    ELSE atom

\* parsedOutput?.key: <<value>>, or <<>> when null or undefined.
Field(parsed, key) ==
    IF Len(parsed) = 3 /\ parsed[1] = "{" /\ parsed[2] \in Atoms
          /\ MemberKey(parsed[2]) = key
      THEN <<MemberValue(parsed[2])>>
      ELSE Null

\* The values JavaScript takes for false: null and undefined, the number 0
\* (member value 0) and the empty string.
Falsy(v) == v = Null \/ v[1] \in {"0", ""}

\* a || b || c: the first operand that is not falsy, else the last one.
FirstOf(a, b, c) == IF ~Falsy(a) THEN a ELSE IF ~Falsy(b) THEN b ELSE c

\* v || null
OrNull(v) == IF Falsy(v) THEN Null ELSE v

\* new Date(string): the calendar date, or Invalid Date for a string that
\* is not a date.
NewDate(string) == IF string \in {"d1", "d2"} THEN string ELSE "Invalid Date"

\* parsedOutput?.date ? new Date(parsedOutput.date) : null
ServiceDateOf(parsed) ==
    LET date == Field(parsed, "date")
    IN  IF Falsy(date) THEN Null ELSE <<NewDate(date[1])>>

\* A JavaScript value handed to parseMoney: a finite number num/den (den a
\* power of ten, no trailing zero in the fraction) or a string of characters.
Num(n, d)  == [type |-> "number", num |-> n, den |-> d, chars |-> <<>>]
Str(chars) == [type |-> "string", num |-> 0, den |-> 1, chars |-> chars]

Digits == {"0", "1", "2", "3", "4", "5", "6", "7", "8", "9"}

DigitValue(c) ==
    CASE c = "0" -> 0 [] c = "1" -> 1 [] c = "2" -> 2 [] c = "3" -> 3 [] c = "4" -> 4
      [] c = "5" -> 5 [] c = "6" -> 6 [] c = "7" -> 7 [] c = "8" -> 8 [] c = "9" -> 9

RECURSIVE Pow10(_)
Pow10(k) == IF k = 0 THEN 1 ELSE 10 * Pow10(k - 1)

\* n/d without trailing zeros in the fraction.
RECURSIVE Normalize(_, _)
Normalize(n, d) ==
    IF d > 1 /\ n % 10 = 0 THEN Normalize(n \div 10, d \div 10) ELSE Num(n, d)

\* String(v).replace(/[^0-9.\-]/g, '')
StripMoney(chars) == SelectSeq(chars, LAMBDA c : c \in Digits \cup {".", "-"})

\* The position after the run of digits that starts at p.
RECURSIVE DigitsEnd(_, _)
DigitsEnd(s, p) == IF p <= Len(s) /\ s[p] \in Digits THEN DigitsEnd(s, p + 1) ELSE p

\* The number the digits s[p .. q - 1] write.
RECURSIVE DigitsValue(_, _, _)
DigitsValue(s, p, q) ==
    IF q <= p THEN 0 ELSE 10 * DigitsValue(s, p, q - 1) + DigitValue(s[q - 1])

\* parseFloat of a stripped string: the longest prefix [-]digits[.digits],
\* <<>> for NaN.
ParseFloat(s) ==
    LET neg   == Len(s) >= 1 /\ s[1] = "-"
        start == IF neg THEN 2 ELSE 1
        e1    == DigitsEnd(s, start)
        dot   == e1 <= Len(s) /\ s[e1] = "."
        e2    == IF dot THEN DigitsEnd(s, e1 + 1) ELSE e1
        k     == IF dot THEN e2 - (e1 + 1) ELSE 0
        mag   == DigitsValue(s, start, e1) * Pow10(k)
                    + (IF dot THEN DigitsValue(s, e1 + 1, e2) ELSE 0)
    IN  IF e1 = start /\ k = 0 THEN <<>>
        ELSE <<Normalize(IF neg THEN 0 - mag ELSE mag, Pow10(k))>>

\* A parseMoney that answers 0 where nothing parses.
ParseMoneyOrZero(v) ==
    IF v = Null THEN Null
    ELSE IF v[1].type = "number" THEN v
    ELSE IF ParseFloat(StripMoney(v[1].chars)) = <<>> THEN <<Num(0, 1)>>
    ELSE ParseFloat(StripMoney(v[1].chars))

\* parseMoney(v): null for null or undefined, a finite number as it is, a
\* string stripped and parsed, null when the parse is not finite.
ParseMoney(v) ==
    IF v = Null THEN Null
    ELSE IF v[1].type = "number" THEN v
    ELSE ParseFloat(StripMoney(v[1].chars))

\* The value of a member token as JavaScript holds it.
ValueOf(v) ==
    IF v = Null THEN Null
    ELSE IF v[1] = "12" THEN <<Num(12, 1)>>
    ELSE IF v[1] = "0" THEN <<Num(0, 1)>>
    ELSE <<Str(<<v[1]>>)>>

TotalCostOf(parsed) ==
    ParseMoney(ValueOf(FirstOf(Field(parsed, "totalCost"), Field(parsed, "total_cost"),
                               Field(parsed, "amount"))))

MaxMoneyLen == 4     \* longest string of the enumerated arguments

\* The arguments: null, some numbers, every short string of a few characters
\* and the two strings of the interface description.
MoneyInputs ==
    LET chars   == {"$", ",", "0", "5", ".", "-", "n", " "}
        strings == UNION {[1 .. n -> chars] : n \in 0 .. MaxMoneyLen}
                      \cup { <<"$", "1", ",", "2", "3", "4", ".", "5", "0">>,
                             <<"n", "/", "a">> }
        numbers == {Num(0, 1), Num(12, 1), Num(12345, 10), Num(0 - 5, 1)}
    IN  {Null} \cup {<<n>> : n \in numbers} \cup {<<Str(c)>> : c \in strings}

NoMoneyCall == [pc |-> "idle", input |-> Null, result |-> Null]

\* parseMoney runs on its argument and returns.
ParseMoneyCall ==
    /\ money.pc = "idle"
    /\ money' = [money EXCEPT !.pc = "done", !.result = ParseMoney(money.input)]

\* A description that falls back to the empty string.
DescriptionOrEmpty(parsed) ==
    FirstOf(Field(parsed, "serviceType"), Field(parsed, "description"),
            FirstOf(Field(parsed, "service"), <<"">>, <<"">>))

\* parsedOutput?.serviceType || parsedOutput?.description || parsedOutput?.service || null
DescriptionOf(parsed) ==
    OrNull(FirstOf(Field(parsed, "serviceType"), Field(parsed, "description"),
                   Field(parsed, "service")))

\* The row the INSERT names; summary and mileage are not among its columns.
NewRow(id, tok, outputText, parsed) ==
    [id |-> id, token_id |-> tok, service_date |-> ServiceDateOf(parsed),
     total_cost |-> TotalCostOf(parsed), description |-> DescriptionOf(parsed),
     summary |-> Null, mileage |-> Null, output_text |-> <<outputText>>,
     created_at |-> id]

\* token_id INTEGER NOT NULL, output_text TEXT NOT NULL, service_date DATE:
\* an Invalid Date is not the text of a date.
Accepts(row) ==
    /\ row.token_id # Null
    /\ row.output_text # Null
    /\ row.service_date # <<"Invalid Date">>

\* total_cost NUMERIC(12,2): the number rounded to two decimals, held as a
\* decimal of scale 2 (the driver hands it back as a string such as 12.00).
ToNumeric(v) ==
    IF v = Null THEN Null
    ELSE LET n     == v[1].num * 100
             q     == (2 * Abs(n) + v[1].den) \div (2 * v[1].den)
             cents == IF n < 0 THEN 0 - q ELSE q
         IN  <<[type |-> "decimal", num |-> cents, den |-> 100, chars |-> <<>>]>>

\* The row as the table holds it.
Stored(row) == [row EXCEPT !.total_cost = ToNumeric(row.total_cost)]

\* An INSERT that replaces the row of the same vehicle.
Upserted(table, row) ==
    IF \E i \in 1 .. Len(table) : table[i].token_id = row.token_id
      THEN [i \in 1 .. Len(table) |->
              IF table[i].token_id = row.token_id THEN row ELSE table[i]]
      ELSE Append(table, row)

\* INSERT INTO vehicle_maintenance.maintenance_records ...: one more row.
Insert(table, row) == Append(table, row)

\* The columns of CREATE TABLE, and those an earlier version of it made.
AllColumns ==
    {"id", "token_id", "service_date", "total_cost", "description", "summary",
     "mileage", "output_text", "created_at"}
BaseColumns == AllColumns \ {"summary", "mileage"}

NoSchema == [exists |-> FALSE, table |-> FALSE, columns |-> {}]

\* CREATE SCHEMA IF NOT EXISTS vehicle_maintenance
CreateSchema(sch) == [sch EXCEPT !.exists = TRUE]

\* CREATE TABLE IF NOT EXISTS vehicle_maintenance.maintenance_records (...)
CreateTable(sch) ==
    IF sch.table THEN sch ELSE [sch EXCEPT !.table = TRUE, !.columns = AllColumns]

\* ALTER TABLE ... ADD COLUMN IF NOT EXISTS summary TEXT,
\*                 ADD COLUMN IF NOT EXISTS mileage INTEGER
AddColumns(sch) == [sch EXCEPT !.columns = @ \cup {"summary", "mileage"}]

\* A row after columns were dropped and added again.
Rewidened(row, columns) ==
    [c \in columns |-> IF c \in DOMAIN row \ {"summary", "mileage"} THEN row[c] ELSE Null]

\* A row over the columns of the table: a column it lacks holds NULL.
Widen(row, columns) ==
    [c \in columns |-> IF c \in DOMAIN row THEN row[c] ELSE Null]

NoBody == [success |-> FALSE, error |-> "", content |-> NoContent, parsed |-> Null,
           hasParsed |-> FALSE]

Reply(status, result) ==
    [status |-> status,
     body |-> [NoBody EXCEPT !.success = result.success, !.error = result.error,
                             !.content = result.content]]

\* res.json({ ...result, parsed: parsedOutput })
ReplyParsed(result, parsed) ==
    [status |-> 200,
     body |-> [success |-> result.success, error |-> result.error,
               content |-> result.content, parsed |-> parsed, hasParsed |-> TRUE]]

\* A handler that answers 500 when the INSERT failed.
ReplyAfterInsertStrict(result, parsed, inserted) ==
    IF inserted THEN ReplyParsed(result, parsed) ELSE Reply(500, Failure("insert failed"))

\* The response after the try/catch around pool.query.
ReplyAfterInsert(result, parsed, inserted) == ReplyParsed(result, parsed)

IdleReq ==
    [pc |-> "idle", endpoint |-> "", body |-> "", path |-> "", onDisk |-> FALSE,
     rawTokenId |-> "",
     result |-> NoResult, parsed |-> Null, row |-> <<>>, dbUp |-> FALSE,
     inserted |-> "none"]

NoResponse == [status |-> 0, body |-> NoBody]

\* A request arrives; multer has stored the document, if one was sent.
Receive(hasFile, path, rawTok) ==
    /\ server.pc = "listening"
    /\ req.pc \in {"idle", "responded"}
    /\ Len(rows) < MaxRows
    /\ IF ~hasFile
         THEN /\ req' = [IdleReq EXCEPT !.pc = "responded", !.rawTokenId = rawTok,
                                        !.endpoint = "extract-maintenance"]
              /\ response' = Reply(400, Failure("No document file provided"))
         ELSE /\ req' = [IdleReq EXCEPT !.pc = "extract", !.path = path,
                                        !.onDisk = TRUE, !.rawTokenId = rawTok,
                                        !.endpoint = "extract-maintenance"]
              /\ response' = NoResponse
    /\ UNCHANGED <<rows, nextId>>

\* A request to /api/ai/process-image or /api/ai/process-pdf arrives: the
\* file and the prompt are checked, then the service method is awaited.
ProcessReceive(endpoint, hasFile, hasPrompt) ==
    /\ server.pc = "listening"
    /\ req.pc \in {"idle", "responded"}
    /\ LET path == IF endpoint = "process-pdf" THEN "doc.pdf" ELSE "doc.png"
       IN  IF ~hasFile
             THEN /\ req' = [IdleReq EXCEPT !.pc = "responded", !.endpoint = endpoint]
                  /\ response' = Reply(400, Failure("No file provided"))
           ELSE IF ~hasPrompt
             THEN /\ req' = [IdleReq EXCEPT !.pc = "responded", !.endpoint = endpoint,
                                            !.path = path, !.onDisk = TRUE]
                  /\ response' = Reply(400, Failure("Prompt is required"))
           ELSE /\ req' = [IdleReq EXCEPT !.pc = "extract", !.endpoint = endpoint,
                                          !.path = path, !.onDisk = TRUE]
                /\ response' = NoResponse
    /\ UNCHANGED <<rows, nextId, listing, schema, server>>

\* What openaiService.extractMaintenanceInfo can return for a path.
ExtractResults(path) ==
    {Failure(m) : m \in RemoteErrors \cup {NotConfigured}}
        \cup {[success |-> TRUE, error |-> "",
               content |-> [shape |-> IF IsPDF(path) THEN "response" ELSE "string",
                            text |-> t]] : t \in SampleTexts}

\* extractMaintenanceInfo has returned; fs.unlink is awaited.
Extracted(result) ==
    /\ req.pc = "extract"
    /\ req' = [req EXCEPT !.pc = "unlink", !.result = result]
    /\ UNCHANGED <<rows, nextId, response>>

\* fs.unlink settles; on success the handler runs up to the INSERT.
Unlinked(ok) ==
    /\ req.pc = "unlink"
    /\ IF ~ok
         THEN /\ req' = [req EXCEPT !.pc = "responded"]
              /\ response' = Reply(500, Failure("ENOENT"))
         ELSE IF ~req.result.success
           THEN /\ req' = [req EXCEPT !.pc = "responded", !.onDisk = FALSE]
                /\ response' = Reply(500, req.result)
         ELSE IF req.endpoint # "extract-maintenance"
           THEN /\ req' = [req EXCEPT !.pc = "responded", !.onDisk = FALSE]
                /\ response' = Reply(200, req.result)
           ELSE LET outputText == OutputText(req.result.content)
                    parsed     == ParseModelJson(Cleaned(outputText))
                IN  /\ req' = [req EXCEPT
                                 !.pc = "insert", !.onDisk = FALSE,
                                 !.parsed = parsed,
                                 !.row = <<NewRow(nextId, TokenIdOf(req.rawTokenId),
                                                  outputText, parsed)>>]
                    /\ response' = NoResponse
    /\ UNCHANGED <<rows, nextId>>

\* pool.query(INSERT ...) settles: the store is reachable or not, and it
\* rejects a row that breaks a NOT NULL constraint.
Inserted(dbUp) ==
    /\ req.pc = "insert"
    /\ LET ok == dbUp /\ Accepts(req.row[1])
       IN  /\ rows' = IF ok THEN Insert(rows, Widen(Stored(req.row[1]), schema.columns))
                             ELSE rows
           /\ nextId' = IF ok THEN nextId + 1 ELSE nextId
           /\ req' = [req EXCEPT !.pc = "responded", !.dbUp = dbUp,
                                 !.inserted = IF ok THEN "ok" ELSE "failed"]
           /\ response' = ReplyAfterInsert(req.result, req.parsed, ok)

\* The columns the SELECT names, under their aliases.
Selected(r) ==
    [id |-> r.id, tokenId |-> r.token_id[1], serviceDate |-> r.service_date,
     totalCost |-> r.total_cost, description |-> r.description,
     outputText |-> r.output_text[1], createdAt |-> r.created_at]

\* Dates in calendar order.
DateRank(d) == IF d = "d1" THEN 1 ELSE 2

\* ORDER BY service_date NULLS LAST, created_at DESC: a sorts before b.
Precedes(a, b) ==
    IF a.service_date # b.service_date
      THEN /\ a.service_date # Null
           /\ b.service_date # Null => DateRank(a.service_date[1]) < DateRank(b.service_date[1])
      ELSE a.created_at > b.created_at

RECURSIVE OrderedInsert(_, _)
OrderedInsert(r, s) ==
    IF s = <<>> THEN <<r>>
    ELSE IF Precedes(r, Head(s)) THEN <<r>> \o s
    ELSE <<Head(s)>> \o OrderedInsert(r, Tail(s))

RECURSIVE OrderBy(_)
OrderBy(s) == IF s = <<>> THEN <<>> ELSE OrderedInsert(Head(s), OrderBy(Tail(s)))

\* SELECT ... WHERE token_id = $1 ORDER BY ...
SelectByToken(table, tok) ==
    LET sorted == OrderBy(SelectSeq(table, LAMBDA r : r.token_id = <<tok>>))
    IN  [i \in 1 .. Len(sorted) |-> Selected(sorted[i])]

\* A normalisation that hands the store's value on.
AsSelected(r) == r

\* ({ ...r, totalCost: r.totalCost != null ? Number(r.totalCost) : null }),
\* Number of a decimal being the number it writes.
Normalized(r) ==
    [r EXCEPT !.totalCost = IF r.totalCost # Null
                              THEN <<Normalize(r.totalCost[1].num, r.totalCost[1].den)>>
                              ELSE Null]

NoListing ==
    [pc |-> "idle", auth |-> <<>>, param |-> "", status |-> 0, tokenId |-> Null,
     records |-> <<>>]

\* Authorization headers as they reach the handler (the server hands a
\* header value on without surrounding whitespace; <<>> is no header).
AuthHeaders ==
    { <<>>, <<"Basic", " ", "x">>, <<"Bearer">>, <<"Bearer", " ", "x">> }

\* A check that accepts any header that is present.
AnyHeader(authHeader) == authHeader # <<>>

\* authHeader.startsWith('Bearer ')
Authorized(authHeader) ==
    Len(authHeader) >= 2 /\ authHeader[1] = "Bearer" /\ authHeader[2] = " "

\* GET /api/maintenance/:tokenId arrives: the authorization header and the
\* path parameter are checked.
ListReceive(auth, param) ==
    /\ server.pc = "listening"
    /\ listing.pc \in {"idle", "responded"}
    /\ listing' =
          LET call == [NoListing EXCEPT !.auth = auth, !.param = param]
          IN  IF ~Authorized(auth) THEN [call EXCEPT !.pc = "responded", !.status = 401]
              ELSE IF ParseInt(param) = <<>>
                THEN [call EXCEPT !.pc = "responded", !.status = 400]
              ELSE [call EXCEPT !.pc = "query", !.tokenId = ParseInt(param)]
    /\ UNCHANGED <<req, rows, nextId, response, schema, server>>

\* pool.query(SELECT ...) settles and the handler answers.
ListAnswered(dbUp) ==
    /\ listing.pc = "query"
    /\ listing' =
          IF ~dbUp THEN [listing EXCEPT !.pc = "responded", !.status = 500]
          ELSE LET found == SelectByToken(rows, listing.tokenId[1])
               IN  [listing EXCEPT
                      !.pc = "responded", !.status = 200,
                      !.records = [i \in 1 .. Len(found) |-> Normalized(found[i])]]
    /\ UNCHANGED <<req, rows, nextId, response, schema, server>>

\* A whole request to the extraction route whose INSERT the store took:
\* what it leaves in the table.
Posted(rawTok, t) ==
    LET row == NewRow(nextId, TokenIdOf(rawTok), t, ParseModelJson(Cleaned(t)))
    IN  /\ server.pc = "listening"
        /\ Len(rows) < MaxRows
        /\ Accepts(row)
        /\ rows' = Insert(rows, Widen(Stored(row), schema.columns))
        /\ nextId' = nextId + 1
        /\ UNCHANGED <<req, response, listing, schema, server>>

\* The extraction route, step by step.
NextRoute ==
    /\ \/ \E hasFile \in BOOLEAN, path \in DocumentPaths, rawTok \in RawTokenIds :
              Receive(hasFile, path, rawTok)
       \/ \E result \in ExtractResults(req.path) : Extracted(result)
       \/ \E ok \in BOOLEAN : Unlinked(ok)
       \/ \E dbUp \in BOOLEAN : Inserted(dbUp)
    /\ UNCHANGED <<listing, schema, server>>

\* A request to /api/ai/maintenance-recommendations arrives.  The handler
\* calls openaiService.generateMaintenanceRecommendations; a call of a member
\* the class does not have throws a TypeError before anything is awaited,
\* and the catch block answers it.
Recommend(hasVehicleData) ==
    /\ server.pc = "listening"
    /\ req.pc \in {"idle", "responded"}
    /\ LET call == [IdleReq EXCEPT !.endpoint = "maintenance-recommendations",
                                   !.body = IF hasVehicleData THEN "vehicleData" ELSE ""]
       IN  IF ~hasVehicleData
             THEN /\ req' = [call EXCEPT !.pc = "responded"]
                  /\ response' = Reply(400, Failure("Vehicle data is required"))
           ELSE IF "generateMaintenanceRecommendations" \notin Methods
             THEN /\ req' = [call EXCEPT !.pc = "responded"]
                  /\ response' = Reply(500, Failure("is not a function"))
           ELSE /\ req' = [call EXCEPT !.pc = "recommend"]
                /\ response' = NoResponse
    /\ UNCHANGED <<rows, nextId, listing, schema, server>>

\* The routes under /api/ai that take a file, and the recommendations.
NextAi ==
    \/ NextRoute
    \/ \E endpoint \in {"process-image", "process-pdf"}, hasFile, hasPrompt \in BOOLEAN :
          ProcessReceive(endpoint, hasFile, hasPrompt)
    \/ \E hasVehicleData \in BOOLEAN : Recommend(hasVehicleData)

\* The listing route over the tables the extraction route leaves.
NextQuery ==
    \/ \E rawTok \in RawTokenIds, t \in SampleTexts : Posted(rawTok, t)
    \/ \E auth \in AuthHeaders, param \in {"0", "7", "8", "abc"} : ListReceive(auth, param)
    \/ \E dbUp \in BOOLEAN : ListAnswered(dbUp)

Down == [pc |-> "down", first |-> <<>>]

\* The process starts, or is started again between requests: startServer
\* calls runMigrations.
StartServer ==
    /\ server.pc \in {"down", "listening", "failed"}
    /\ req.pc \in {"idle", "responded"}
    /\ listing.pc \in {"idle", "responded"}
    /\ server' = [server EXCEPT !.pc = "schema"]
    /\ req' = IdleReq
    /\ response' = NoResponse
    /\ listing' = NoListing
    /\ UNCHANGED <<rows, nextId, schema>>

\* The first statement of runMigrations settles; a rejected query ends
\* startServer.
MigrateSchema(ok) ==
    /\ server.pc = "schema"
    /\ schema' = IF ok THEN CreateSchema(schema) ELSE schema
    /\ server' = [server EXCEPT !.pc = IF ok THEN "table" ELSE "failed"]
    /\ UNCHANGED <<req, rows, nextId, response, listing>>

\* The second statement settles.
MigrateTable(ok) ==
    /\ server.pc = "table"
    /\ schema' = IF ok THEN CreateTable(schema) ELSE schema
    /\ server' = [server EXCEPT !.pc = IF ok THEN "alter" ELSE "failed"]
    /\ UNCHANGED <<req, rows, nextId, response, listing>>

\* The third statement settles; after it the server listens.
MigrateColumns(ok) ==
    /\ server.pc = "alter"
    /\ schema' = IF ok THEN AddColumns(schema) ELSE schema
    /\ rows' = IF ok THEN [i \in 1 .. Len(rows) |-> Widen(rows[i], schema'.columns)]
                      ELSE rows
    /\ server' = IF ~ok THEN [server EXCEPT !.pc = "failed"]
                  ELSE [pc |-> "listening",
                        first |-> IF server.first = <<>> THEN <<schema'>> ELSE server.first]
    /\ UNCHANGED <<req, nextId, response, listing>>

NextMigrate ==
    \/ StartServer
    \/ \E ok \in BOOLEAN : MigrateSchema(ok)
    \/ \E ok \in BOOLEAN : MigrateTable(ok)
    \/ \E ok \in BOOLEAN : MigrateColumns(ok)

\* No process, no database.
InitRoute ==
    /\ req = IdleReq /\ rows = <<>> /\ nextId = 1 /\ response = NoResponse
    /\ listing = NoListing
    /\ schema = NoSchema
    /\ server = Down

\* A row an earlier version of the server stored, over the given columns.
OldRow(id, columns) ==
    [c \in columns |->
        CASE c = "id" -> id
          [] c = "created_at" -> id
          [] c = "token_id" -> <<7>>
          [] c = "output_text" -> << <<"x", "x">> >>
          [] c = "summary" -> <<"oil change">>
          [] OTHER -> Null]

\* The databases a starting server may find: none, the schema alone, or a
\* table of an earlier or the present version with the rows it holds.
PriorStores ==
    {[schema |-> NoSchema, rows |-> <<>>],
     [schema |-> CreateSchema(NoSchema), rows |-> <<>>]}
      \cup {[schema |-> [exists |-> TRUE, table |-> TRUE, columns |-> cols],
              rows |-> [i \in 1 .. n |-> OldRow(i, cols)]] :
                n \in 0 .. MaxRows,
                cols \in {BaseColumns, BaseColumns \cup {"summary"},
                          BaseColumns \cup {"mileage"}, BaseColumns \cup {"notes"},
                          AllColumns}}

\* A server that is about to start on the database it finds.
InitStore(stores) ==
    /\ req = IdleReq /\ response = NoResponse /\ listing = NoListing
    /\ server = Down
    /\ \E st \in stores :
          /\ schema = st.schema
          /\ rows = st.rows
          /\ nextId = Len(st.rows) + 1

\* A server that listens on an empty table.
InitServing ==
    /\ req = IdleReq /\ rows = <<>> /\ nextId = 1 /\ response = NoResponse
    /\ listing = NoListing
    /\ schema = AddColumns(CreateTable(CreateSchema(NoSchema)))
    /\ server = [pc |-> "listening", first |-> <<schema>>]

(***************************************************************************)
(* Backend: the stored configuration and the routes that need it           *)
(***************************************************************************)
\* tmp/app-config.json: whether the file exists and the configuration it
\* holds, <<>> while it holds no complete JSON text.
NoFile == [exists |-> FALSE, content |-> <<>>]

NoAnswer == [endpoint |-> "", status |-> 0, sdk |-> FALSE]

\* res.status(status): sdk tells whether the handler called the DIMO SDK.
Answered(endpoint, status, sdk) == [endpoint |-> endpoint, status |-> status, sdk |-> sdk]

\* No file, no request in progress.  configured records whether a POST has
\* succeeded and no DELETE has succeeded since.
NoConfig ==
    [file |-> NoFile, configured |-> FALSE, post |-> <<>>, del |-> "idle",
     last |-> NoAnswer]

\* The bodies of POST /api/config: "" stands for a missing field.
ConfigBodies ==
    {[clientId |-> c, apiKey |-> k] : c \in {"", "c1", "c2"}, k \in {"", "k1", "k2"}}

\* FileStorage.loadConfig: the parsed file, or null when readFile or
\* JSON.parse throws.
LoadConfig(file) == IF file.exists THEN file.content ELSE <<>>

\* app.get('/api/config')
GetConfig ==
    config' = [config EXCEPT !.last =
                 Answered("GET /api/config",
                        IF LoadConfig(config.file) = <<>> THEN 404 ELSE 200, FALSE)]

\* app.post('/api/config') up to the await of storage.saveConfig: fs.writeFile
\* has opened the file, which creates or truncates it.
PostConfig(body) ==
    /\ config.post = <<>>
    /\ IF body.clientId = "" \/ body.apiKey = ""
         THEN config' = [config EXCEPT !.last = Answered("POST /api/config", 400, FALSE)]
         ELSE config' = [config EXCEPT !.post = <<body>>,
                                       !.file = [exists |-> TRUE, content |-> <<>>],
                                       !.last = NoAnswer]

\* fs.writeFile settles: the text is written (into the file, if it has not
\* been unlinked meanwhile), or the write has failed and the file is left as
\* it was opened.
PostWritten(ok) ==
    /\ config.post # <<>>
    /\ IF ok
         THEN config' = [config EXCEPT
                           !.post = <<>>,
                           !.file = IF config.file.exists
                                      THEN [exists |-> TRUE, content |-> config.post]
                                      ELSE config.file,
                           !.configured = TRUE,
                           !.last = Answered("POST /api/config", 200, FALSE)]
         ELSE config' = [config EXCEPT
                           !.post = <<>>,
                           !.last = Answered("POST /api/config", 500, FALSE)]

\* app.delete('/api/config') up to fs.unlink: fs.access tells whether the
\* file exists.
DeleteConfig ==
    /\ config.del = "idle"
    /\ IF ~config.file.exists
         THEN config' = [config EXCEPT !.last = Answered("DELETE /api/config", 404, FALSE)]
         ELSE config' = [config EXCEPT !.del = "unlink", !.last = NoAnswer]

\* fs.unlink settles.
DeleteUnlinked ==
    /\ config.del = "unlink"
    /\ IF ~config.file.exists
         THEN config' = [config EXCEPT
                           !.del = "idle",
                           !.last = Answered("DELETE /api/config", 500, FALSE)]
         ELSE config' = [config EXCEPT
                           !.del = "idle", !.file = NoFile, !.configured = FALSE,
                           !.last = Answered("DELETE /api/config", 200, FALSE)]

\* app.post('/api/auth/developer') and app.get('/api/vehicle-details-info/
\* :tokenId'): 400 without a configuration, else the calls of the DIMO SDK,
\* which succeed or throw.
ConfigEndpoints == {"POST /api/auth/developer", "GET /api/vehicle-details-info"}

NeedsConfig(endpoint, sdkOk) ==
    config' = [config EXCEPT !.last =
                 IF LoadConfig(config.file) = <<>> THEN Answered(endpoint, 400, FALSE)
                 ELSE Answered(endpoint, IF sdkOk THEN 200 ELSE 500, TRUE)]

NextConfig ==
    \/ GetConfig
    \/ \E body \in ConfigBodies : PostConfig(body)
    \/ \E ok \in BOOLEAN : PostWritten(ok)
    \/ DeleteConfig
    \/ DeleteUnlinked
    \/ \E e \in ConfigEndpoints, sdkOk \in BOOLEAN : NeedsConfig(e, sdkOk)

(***************************************************************************)
(* Specifications.  The page, the route, the parsing and the service share *)
(* no state; each specification moves one of them and holds the others in  *)
(* their initial state.                                                    *)
(***************************************************************************)
IdleParse == text = <<>> /\ routeParsed = Pending /\ planResult = PendingPlan
IdleSvc   == apiKey = "" /\ svc = IdleSvcCall /\ money = NoMoneyCall /\ config = NoConfig

\* The upload modal of a page that has loaded its vehicle.
Init == InitLoaded /\ InitRoute /\ IdleParse /\ IdleSvc
Next == NextUpload /\ UNCHANGED <<routeVars, parseVars, svcVars, moneyVars, configVars>>
Spec == Init /\ [][Next]_vars

\* Loading, from the component as constructed.
InitLoad == InitPage /\ InitRoute /\ IdleParse /\ IdleSvc
StepLoad == NextLoad /\ UNCHANGED <<routeVars, parseVars, svcVars, moneyVars, configVars>>
SpecLoad == InitLoad /\ [][StepLoad]_vars

\* The telemetry answer of one load and the table rendered from it.
InitOdometer == InitAwaitingTelemetry /\ InitRoute /\ IdleParse /\ IdleSvc
StepOdometer == NextOdometer /\ UNCHANGED <<routeVars, parseVars, svcVars, moneyVars, configVars>>
SpecOdometer == InitOdometer /\ [][StepOdometer]_vars

\* parseMoney over numbers, null and every string of at most MaxMoneyLen
\* characters.
InitMoney ==
    /\ InitPage /\ InitRoute /\ IdleParse
    /\ apiKey = "" /\ svc = IdleSvcCall
    /\ money \in {[NoMoneyCall EXCEPT !.input = v] : v \in MoneyInputs}
    /\ config = NoConfig
StepMoney == ParseMoneyCall /\ UNCHANGED <<pageVars, routeVars, parseVars, svcVars, configVars>>
SpecMoney == InitMoney /\ [][StepMoney]_vars

\* The configuration routes of a server that starts without a configuration.
InitConfig == InitPage /\ InitRoute /\ IdleParse /\ IdleSvc
StepConfig == NextConfig /\ UNCHANGED <<pageVars, routeVars, parseVars, svcVars, moneyVars>>
SpecConfig == InitConfig /\ [][StepConfig]_vars

\* The parsing of every text of at most MaxLen tokens.
InitParse == InitPage /\ InitRoute /\ InitTexts /\ IdleSvc
StepParse == (ParseForRoute \/ ParseForPlan) /\ UNCHANGED <<pageVars, routeVars, svcVars, moneyVars, configVars>>
SpecParse == InitParse /\ [][StepParse]_vars

\* The parsing of object texts, bare and wrapped in fences.
InitFence ==
    /\ InitPage /\ InitRoute /\ IdleSvc
    /\ text \in Objects(MaxDepth) \cup {Wrap(w, J) : w \in Wrappers, J \in Objects(MaxDepth)}
    /\ routeParsed = Pending
    /\ planResult = PendingPlan
SpecFence == InitFence /\ [][StepParse]_vars

\* The service, with and without an API key.
StartSvc == InitPage /\ InitRoute /\ IdleParse /\ InitSvc /\ money = NoMoneyCall /\ config = NoConfig
StepSvc  == NextSvc /\ UNCHANGED <<pageVars, routeVars, parseVars, moneyVars, configVars>>
SpecSvc  == StartSvc /\ [][StepSvc]_vars

\* The extraction route.
\* The extraction route of a server that starts on no database or on the
\* table of an earlier version, and may be started again between requests.
StartRoute ==
    /\ InitPage /\ IdleParse /\ IdleSvc
    /\ InitStore({st \in PriorStores :
                    ~st.schema.exists \/ (st.schema.columns = BaseColumns /\ Len(st.rows) = 1)})
StepRoute  == (NextRoute \/ NextMigrate) /\ UNCHANGED <<pageVars, parseVars, svcVars, moneyVars, configVars>>
SpecRoute  == StartRoute /\ [][StepRoute]_vars

\* runMigrations on every database a server may find.
InitMigrate == InitPage /\ IdleParse /\ IdleSvc /\ InitStore(PriorStores)
StepMigrate == NextMigrate /\ UNCHANGED <<pageVars, parseVars, svcVars, moneyVars, configVars>>
SpecMigrate == InitMigrate /\ [][StepMigrate]_vars

\* Listing requests over the tables that extraction requests leave.
InitQuery == InitPage /\ IdleParse /\ IdleSvc /\ InitServing
StepQuery == NextQuery /\ UNCHANGED <<pageVars, parseVars, svcVars, moneyVars, configVars>>
SpecQuery == InitQuery /\ [][StepQuery]_vars

\* The routes under /api/ai, on a server that listens.
StepAi == NextAi /\ UNCHANGED <<pageVars, parseVars, svcVars, moneyVars, configVars>>
SpecAi == InitQuery /\ [][StepAi]_vars

\* The upload modal and a configured service together.  As they share no state their
\* steps are not interleaved: the modal moves until the first service call,
\* the service moves while the modal is as it was loaded.  The user starts
\* no upload while a coroutine is still awaiting (Spec has those runs): what
\* a coroutine does after its await depends on its own i and on uploadFiles,
\* which the modal handlers change here in every way another coroutine could.
PageAtRest == InitLoaded
InitRetry  ==
    /\ InitLoaded /\ InitRoute /\ IdleParse
    /\ apiKey = "sk-test" /\ svc = IdleSvcCall /\ money = NoMoneyCall /\ config = NoConfig
StepRetry  ==
    \/ /\ svc = IdleSvcCall
       /\ NextUpload
       /\ Cardinality({k \in RunIds : runs'[k].active}) <= 1
       /\ UNCHANGED <<routeVars, parseVars, svcVars, moneyVars, configVars>>
    \/ PageAtRest /\ NextSvc /\ UNCHANGED <<pageVars, routeVars, parseVars, moneyVars, configVars>>
SpecRetry  == InitRetry /\ [][StepRetry]_vars

(***************************************************************************)
(* Properties of the upload modal (Spec) and of loading (SpecLoad)         *)
(***************************************************************************)
Terminal(item) == item.status \in {"completed", "error"}

\* C1: a startUpload coroutine during which no modal handler has run sends
\* the files selected at its start in index order, all of them before it
\* ends, and no progress entry is followed by another before it is terminal.
C1_UploadInOrder ==
    /\ [](\A k \in RunIds :
            runs[k].active /\ runs[k].clean =>
                /\ runs[k].sent = SubSeq(runs[k].files0, 1, runs[k].i + 1)
                /\ \A j \in 1 .. Len(uploadProgress) - 1 : Terminal(uploadProgress[j]))
    /\ [][\A k \in RunIds :
            (runs[k].active /\ runs[k].clean /\ ~runs'[k].active) =>
                runs[k].sent = runs[k].files0]_vars

\* The state a coroutine begun while no other was awaiting keeps as long as
\* no modal handler runs: its files in order, one entry per file sent.
UploadInOrderAlone ==
    \A k \in RunIds :
        runs[k].active /\ runs[k].clean /\ runs[k].alone =>
            LET i == runs[k].i
            IN  /\ uploadFiles = runs[k].files0
                /\ runs[k].sent = SubSeq(runs[k].files0, 1, i + 1)
                /\ Len(uploadProgress) = i + 1
                /\ \A j \in 1 .. Len(uploadProgress) :
                      /\ uploadProgress[j].filename = runs[k].files0[j]
                      /\ (j <= i => Terminal(uploadProgress[j]))
                      /\ (j = i + 1 => uploadProgress[j].status = "uploading")

\* C2: at most one extractMaintenanceInfo call of the page is in flight.
C2_OneUploadInFlight == Cardinality(ActiveRuns) <= 1

\* C3: when the upload awaited by a coroutine that closeUploadModal has
\* overtaken settles, no uploadProgress entry changes, uploadFiles and
\* isUploading stay as they are and the coroutine uploads nothing more.
C3_StaleResultIgnored ==
    [][\A k \in RunIds :
          (runs[k].active /\ runs[k].stale /\ runs'[k] # runs[k]) =>
              /\ uploadProgress' = uploadProgress
              /\ uploadFiles' = uploadFiles
              /\ isUploading' = isUploading
              /\ ~runs'[k].active]_vars

\* C4: a step that logs a failed remote call leaves a non-empty error (the
\* retry button is rendered with it) or, for an upload, an entry with status
\* 'error'.
C4_FailureShown ==
    /\ consoleError \in {"load", "telemetry", "records"} => error # ""
    /\ consoleError = "upload" =>
          \E j \in 1 .. Len(uploadProgress) : uploadProgress[j].status = "error"

(***************************************************************************)
(* Properties of the odometer history (SpecOdometer, SpecLoad)             *)
(***************************************************************************)
\* The signals of the answer the finished load received, <<>> if none.
SignalsReceived ==
    IF backendData # <<>> /\ backendData[1].present THEN backendData[1].signals
    ELSE <<>>

Bijections(n) == {p \in [1 .. n -> 1 .. n] : \A i, j \in 1 .. n : p[i] = p[j] => i = j}

\* C11: the odometerHistory of a non-empty signals list has one reading per
\* sample, each with the sample's timestamp and kilometers and with miles =
\* kilometers x 0.621371, in non-decreasing order of timestamp, samples of
\* one timestamp in their order of arrival.
C11_HistoryStableSorted ==
    (loadPc = "idle" /\ Len(SignalsReceived) > 0) =>
        LET s == SignalsReceived
            h == vehicle.odometerHistory
        IN  /\ Len(h) = Len(s)
            /\ \E p \in Bijections(Len(s)) :
                  /\ \A j \in 1 .. Len(s) :
                        /\ h[j].timestamp = s[p[j]].timestamp
                        /\ h[j].kilometers = s[p[j]].km
                        /\ h[j].miles = s[p[j]].km * 621371
                  /\ \A j, k \in 1 .. Len(s) :
                        j < k => \/ s[p[j]].timestamp < s[p[k]].timestamp
                                 \/ /\ s[p[j]].timestamp = s[p[k]].timestamp
                                    /\ p[j] < p[k]

\* Two samples of one timestamp have arrived, the larger reading first.
C11_Witness ==
    /\ loadPc = "idle"
    /\ SignalsReceived = <<[timestamp |-> 2, km |-> 1200], [timestamp |-> 2, km |-> 1000],
                           [timestamp |-> 1, km |-> 1100]>>
    /\ Len(vehicle.odometerHistory) = 3

\* C12: the current reading and timestamp are those of the sample with the
\* latest timestamp (the last arrived of them), whatever its distance.
C12_CurrentIsLatest ==
    (loadPc = "idle" /\ Len(SignalsReceived) > 0) =>
        LET s == SignalsReceived
        IN  \E j \in 1 .. Len(s) :
              /\ \A k \in 1 .. Len(s) : s[k].timestamp <= s[j].timestamp
              /\ \A k \in 1 .. Len(s) : k > j => s[k].timestamp < s[j].timestamp
              /\ vehicle.odometerSet
              /\ vehicle.odometerTimestamp = s[j].timestamp
              /\ vehicle.odometerReading = s[j].km * MilesPerKmE6

\* The readings 1000, 1200, 1100 km at T1 < T2 < T3: the history keeps that
\* order, its miles go down at the end, the current reading is the last.
C12_Witness ==
    /\ loadPc = "idle"
    /\ SignalsReceived = <<[timestamp |-> 1, km |-> 1000], [timestamp |-> 2, km |-> 1200],
                           [timestamp |-> 3, km |-> 1100]>>
    /\ [j \in 1 .. 3 |-> vehicle.odometerHistory[j].timestamp] = <<1, 2, 3>>
    /\ vehicle.odometerHistory[3].miles < vehicle.odometerHistory[2].miles
    /\ vehicle.odometerReading = 1100 * MilesPerKmE6
    /\ vehicle.odometerTimestamp = 3

\* C13: after a load whose telemetry answer had an empty or no signals list
\* the vehicle has no odometer property set, and after one with samples it
\* has them set, a zero reading included.
C13_NoDataUnset ==
    (loadPc = "idle" /\ backendData # <<>> /\ ~backendData[1].throws) =>
        /\ vehicle.present
        /\ vehicle.odometerSet <=> Len(SignalsReceived) > 0
        /\ ~vehicle.odometerSet =>
              /\ vehicle.odometerUnit = ""
              /\ vehicle.odometerHistory = <<>>

\* A load for t2 has ended with an answer without signals.
C13_Witness ==
    /\ loadPc = "idle"
    /\ backendData = <<NoSignals>>
    /\ vehicle.present /\ vehicle.tokenId = "t2"
    /\ ~vehicle.odometerSet

\* C14: the table has one row per reading; row 0 shows the placeholder; the
\* distance of every later row is miles[i] - miles[i-1], negative when the
\* reading went down, and the cell shows it to the third fraction digit.
C14_RowDistance ==
    odometerTable # <<>> =>
        LET h == vehicle.odometerHistory
        IN  /\ Len(odometerTable) = Len(h)
            /\ odometerTable[1].placeholder
            /\ \A i \in 2 .. Len(h) :
                  /\ ~odometerTable[i].placeholder
                  /\ odometerTable[i].distanceTraveled = h[i].miles - h[i - 1].miles
                  /\ Abs(odometerTable[i].distance * 1000
                            - (h[i].miles - h[i - 1].miles)) <= 500

\* A table of three rows whose last reading is below the one before.
C14_Witness ==
    /\ Len(odometerTable) = 3
    /\ odometerTable[3].distanceTraveled < 0
    /\ odometerTable[3].distance < 0
    /\ odometerTable[2].distanceTraveled > 0

(***************************************************************************)
(* Properties of the parsing (SpecParse)                                   *)
(***************************************************************************)
\* The position of the "}" that closes the brace opened before p, 0 if none.
RECURSIVE ClosingBrace(_, _, _)
ClosingBrace(s, p, depth) ==
    IF p > Len(s) THEN 0
    ELSE IF s[p] = "{" THEN ClosingBrace(s, p + 1, depth + 1)
    ELSE IF s[p] = "}" THEN (IF depth = 1 THEN p ELSE ClosingBrace(s, p + 1, depth - 1))
    ELSE ClosingBrace(s, p + 1, depth)

\* The first top-level {...} span of a text.
FirstSpan(s) ==
    LET opens == Positions(s, "{")
        close == IF opens = {} THEN 0 ELSE ClosingBrace(s, Min(opens) + 1, 1)
    IN  IF close # 0 THEN [found |-> TRUE, match |-> SubSeq(s, Min(opens), close)]
        ELSE [found |-> FALSE, match |-> <<>>]

\* C7: when the direct parse of the cleaned text fails and the first
\* top-level {...} span of the text is a JSON object, the parsed result is
\* that object.
C7_FallbackFirstSpan ==
    routeParsed # Pending =>
        LET cleaned == Cleaned(text)
            span    == FirstSpan(cleaned)
        IN  (~JsonParse(cleaned).ok /\ span.found /\ JsonParse(span.match).ok)
                => routeParsed = JsonParse(span.match).value

EmptyPlan == <<"{", "plan:[]", "}">>

\* C8: generateUpcomingServices succeeds, with the parsed object as content,
\* exactly when the model output parses to an object whose plan is an array
\* (the empty array included); otherwise it fails with 'Failed to parse
\* upcoming services JSON' and the raw content.
C8_PlanRequired ==
    planResult # PendingPlan =>
        IF ParseModelJson(Cleaned(text)) = EmptyPlan
          THEN planResult = [success |-> TRUE, error |-> "", content |-> EmptyPlan]
          ELSE planResult = [success |-> FALSE,
                             error |-> "Failed to parse upcoming services JSON",
                             content |-> text]

\* A fenced answer whose plan is not an array has been rejected.
C8_Witness ==
    /\ planResult.error = "Failed to parse upcoming services JSON"
    /\ planResult.content = text
    /\ text = <<"fence", "{", "plan:1", "}">>

(***************************************************************************)
(* Properties of the OpenAI service (SpecSvc)                              *)
(***************************************************************************)
\* C9: a service constructed without an API key answers every method with
\* the 'not configured' failure result, and calls no remote endpoint.
C9_NotConfigured ==
    apiKey = "" =>
        /\ svc.pc \in {"idle", "done"}
        /\ svc.calls = NoCalls
        /\ svc.pc = "done" =>
              svc.result = [success |-> FALSE, error |-> NotConfigured,
                            content |-> NoContent]

\* generateUpcomingServices has returned on a service without a key.
C9_Witness ==
    /\ apiKey = ""
    /\ svc.pc = "done"
    /\ svc.method = "generateUpcomingServices"
    /\ svc.result.error = NotConfigured

(***************************************************************************)
(* Properties of the extraction route (SpecRoute)                          *)
(***************************************************************************)
\* C5: once the model call has succeeded and the INSERT has been tried, the
\* response is 200 with the service result and parsed, whether the INSERT
\* succeeded or failed.
C5_InsertFailureSwallowed ==
    (req.pc = "responded" /\ req.inserted # "none") =>
        /\ req.result.success
        /\ response.status = 200
        /\ response.body = [success |-> TRUE, error |-> "",
                            content |-> req.result.content,
                            parsed |-> req.parsed, hasParsed |-> TRUE]

\* A request with a valid tokenId whose INSERT failed has been answered.
C5_Witness ==
    /\ req.pc = "responded"
    /\ req.inserted = "failed"
    /\ TokenIdOf(req.rawTokenId) = <<7>>
    /\ response.status = 200

Unparseable(t) ==
    /\ ~JsonParse(Cleaned(t)).ok
    /\ ~(BraceMatch(Cleaned(t)).found /\ JsonParse(BraceMatch(Cleaned(t)).match).ok)

\* C6: when neither parse of the model text succeeds, the response is still
\* 200 with success true, the raw content and parsed null, and with a valid
\* tokenId and a reachable store one row has been added whose output_text
\* is the raw text and whose service_date, total_cost and description are
\* null.
C6_UnstructuredStillStored ==
    (req.pc = "responded" /\ req.result.success /\ req.inserted # "none"
        /\ Unparseable(req.result.content.text)) =>
        /\ response.status = 200
        /\ response.body.success
        /\ response.body.content = req.result.content
        /\ response.body.hasParsed /\ response.body.parsed = JsonNull
        /\ req.row[1].output_text = <<req.result.content.text>>
        /\ req.row[1].service_date = Null
        /\ req.row[1].total_cost = Null
        /\ req.row[1].description = Null
        /\ (TokenIdOf(req.rawTokenId) # Null /\ req.dbUp) =>
              /\ req.inserted = "ok"
              /\ rows # <<>> /\ rows[Len(rows)] = req.row[1]
              /\ Cardinality({j \in 1 .. Len(rows) : rows[j].id = req.row[1].id}) = 1

\* An unparseable answer has been stored for tokenId 7.
C6_Witness ==
    /\ req.pc = "responded"
    /\ req.inserted = "ok"
    /\ Unparseable(req.result.content.text)
    /\ rows[Len(rows)].output_text = <<req.result.content.text>>
    /\ rows[Len(rows)].token_id = <<7>>
    /\ response.body.parsed = JsonNull

(***************************************************************************)
(* Properties of the page and the service together (SpecRetry)             *)
(***************************************************************************)
SvcEndpoints == {"chat", "files", "responses"}

IsCurrency(chars) ==
    \E d \in 1 .. Len(chars) + 1 :
        LET from == IF chars[1] = "$" THEN 2 ELSE 1
        IN  /\ Len(chars) >= 1
            /\ d > from
            /\ chars[from] \in Digits
            /\ \A i \in from .. d - 1 : chars[i] \in Digits \cup {","}
            /\ d <= Len(chars) => chars[d] = "."
            /\ \A i \in d + 1 .. Len(chars) : chars[i] \in Digits

\* The amount a currency string writes, its "$" and commas left out.
AmountOf(chars) ==
    LET ds   == SelectSeq(chars, LAMBDA c : c \in Digits)
        dot  == {i \in 1 .. Len(chars) : chars[i] = "."}
        frac == IF dot = {} THEN 0 ELSE Len(chars) - (CHOOSE i \in dot : TRUE)
    IN  Normalize(DigitsValue(ds, 1, Len(ds) + 1), Pow10(frac))

C16_FenceTransparent ==
    \A J \in Objects(MaxDepth) :
        (text = J \/ \E w \in Wrappers : text = Wrap(w, J)) =>
            /\ routeParsed # Pending => routeParsed = WithoutWs(J)
            /\ planResult # PendingPlan =>
                  /\ planResult.success <=> PlanKind(WithoutWs(J)) = "array"
                  /\ planResult.success => planResult.content = WithoutWs(J)
                  /\ ~planResult.success => planResult.content = text

\* A nested object in a bare fence has been parsed by both.
C16_Witness ==
    /\ text = <<"fence", "{", "k:", "{", "plan:[]", "}", "}", " ", "fence">>
    /\ routeParsed = <<"{", "k:", "{", "plan:[]", "}", "}">>
    /\ planResult # PendingPlan

(***************************************************************************)
(* Properties of the stored records (SpecQuery, SpecRoute)                 *)
(***************************************************************************)
\* Two neighbours of a listing are in the order of the query.
InQueryOrder(a, b) ==
    /\ a.serviceDate = Null => b.serviceDate = Null
    /\ (a.serviceDate # Null /\ b.serviceDate # Null) =>
          DateRank(a.serviceDate[1]) <= DateRank(b.serviceDate[1])
    /\ a.serviceDate = b.serviceDate => a.createdAt > b.createdAt

\* C17: the answer of GET /api/maintenance/:tokenId holds one record for
\* each stored row of the requested tokenId and no other, with the row's
\* values, ordered by serviceDate ascending, null dates last, later
\* createdAt first among equal dates, and totalCost is null or a number of
\* the stored amount, not the store's decimal.
C17_QueryByToken ==
    [][(listing.pc = "query" /\ listing'.status = 200) =>
         LET tok   == listing.tokenId[1]
             recs  == listing'.records
             match == {j \in 1 .. Len(rows) : rows[j].token_id = <<tok>>}
         IN  /\ listing'.tokenId = <<tok>>
             /\ Len(recs) = Cardinality(match)
             /\ \A j \in match : \E i \in 1 .. Len(recs) :
                   /\ recs[i].id = rows[j].id
                   /\ recs[i].tokenId = tok
                   /\ recs[i].serviceDate = rows[j].service_date
                   /\ recs[i].description = rows[j].description
                   /\ recs[i].outputText = rows[j].output_text[1]
                   /\ recs[i].createdAt = rows[j].created_at
                   /\ rows[j].total_cost = Null => recs[i].totalCost = Null
                   /\ rows[j].total_cost # Null =>
                         /\ recs[i].totalCost # Null
                         /\ recs[i].totalCost[1].type = "number"
                         /\ recs[i].totalCost[1].num * rows[j].total_cost[1].den
                               = rows[j].total_cost[1].num * recs[i].totalCost[1].den
             /\ \A i \in 1 .. Len(recs) - 1 : InQueryOrder(recs[i], recs[i + 1])
      ]_vars

\* Two records of tokenId 7 have been listed: the dated one, stored last,
\* before the undated one with its cost of 12.
C17_Witness ==
    /\ listing.status = 200
    /\ listing.tokenId = <<7>>
    /\ Len(listing.records) = 2
    /\ listing.records[1].id = 2
    /\ listing.records[1].serviceDate = <<"d1">>
    /\ listing.records[2].serviceDate = Null
    /\ listing.records[2].totalCost = <<Num(12, 1)>>

\* C18: a row stored with service_date, total_cost, description, summary and
\* mileage all null comes back from the listing of its tokenId with its
\* output text and with serviceDate, totalCost, description, summary and
\* mileage each present and null.
C18_RoundTripNulls ==
    [][(listing.pc = "query" /\ listing'.status = 200) =>
         \A j \in 1 .. Len(rows) :
            (/\ rows[j].token_id = listing.tokenId
             /\ rows[j].service_date = Null /\ rows[j].total_cost = Null
             /\ rows[j].description = Null /\ rows[j].summary = Null
             /\ rows[j].mileage = Null) =>
                \E i \in 1 .. Len(listing'.records) :
                    LET rec == listing'.records[i]
                    IN  /\ rec.id = rows[j].id
                        /\ rec.outputText = rows[j].output_text[1]
                        /\ \A f \in {"serviceDate", "totalCost", "description",
                                     "summary", "mileage"} :
                              f \in DOMAIN rec /\ rec[f] = Null
      ]_vars

\* C19: at every step of the server, requests and migration runs alike, the
\* rows of the table stay as they are, in every column they have, and at
\* most one row is added, which happens exactly when the INSERT of the
\* extraction route succeeds; every stored row has an output_text and a
\* token_id that are not null.
C19_AppendOnly ==
    /\ [](\A i \in 1 .. Len(rows) : rows[i].output_text # Null /\ rows[i].token_id # Null)
    /\ [][/\ Len(rows) <= Len(rows') /\ Len(rows') <= Len(rows) + 1
          /\ \A i \in 1 .. Len(rows) : \A c \in DOMAIN rows[i] :
                c \in DOMAIN rows'[i] /\ rows'[i][c] = rows[i][c]
          /\ Len(rows') = Len(rows) + 1 <=> (req.pc = "insert" /\ req'.inserted = "ok")
       ]_vars

\* A second row has been stored for the vehicle of a row that an earlier
\* version of the server stored, and the server has been started again.
C19_Witness ==
    /\ Len(rows) = 2
    /\ rows[1].token_id = rows[2].token_id
    /\ rows[2].service_date = <<"d1">>
    /\ server.pc = "alter"

(***************************************************************************)
(* Properties of runMigrations (SpecMigrate)                               *)
(***************************************************************************)
\* C20: a statement of runMigrations keeps the schema, the table, every
\* column and every value of every row; it creates the schema and the table
\* only when absent and adds to an existing table no column but the null
\* columns summary and mileage; a completed run leaves a table with both;
\* and once a run has completed, the schema stays the one that run left.
C20_AdditiveIdempotent ==
    /\ [](server.first # <<>> => schema = server.first[1])
    /\ [](server.pc = "listening" =>
            schema.exists /\ schema.table /\ {"summary", "mileage"} \subseteq schema.columns)
    /\ [][/\ schema.exists => schema'.exists
          /\ schema.table => schema'.table
          /\ schema.columns \subseteq schema'.columns
          /\ schema.table => schema'.columns \ schema.columns \subseteq {"summary", "mileage"}
          /\ (~schema.table /\ schema'.table) => schema'.columns = AllColumns
          /\ Len(rows') = Len(rows)
          /\ \A i \in 1 .. Len(rows) :
                /\ DOMAIN rows'[i] = schema'.columns
                /\ \A c \in schema'.columns :
                      rows'[i][c] = IF c \in DOMAIN rows[i] THEN rows[i][c] ELSE Null
       ]_vars

\* A second run has completed on a table that had a summary column with a
\* value and no mileage column.
C20_Witness ==
    /\ server.pc = "listening"
    /\ server.first = <<schema>>
    /\ Len(rows) = 2
    /\ rows[1].summary = <<"oil change">>
    /\ rows[1].mileage = Null
    /\ "notes" \notin schema.columns

(***************************************************************************)
(* Properties of the routes under /api/ai (SpecAi)                         *)
(***************************************************************************)
\* C21: once a request to process-image, process-pdf or extract-maintenance
\* that carried a file has been answered, the file is no longer in
\* tmp/uploads.
C21_FilesCleanedUp ==
    (req.pc = "responded" /\ req.path # "") => ~req.onDisk

\* C22: a request to maintenance-recommendations that carries vehicleData
\* and whose model call succeeds is answered 200 with success true and the
\* generated content; it is answered with an error only without vehicleData
\* (400) or after a failed model call (500).
C22_Recommendations ==
    (req.pc = "responded" /\ req.endpoint = "maintenance-recommendations") =>
        /\ (req.body # "" /\ req.result.success) =>
              /\ response.status = 200
              /\ response.body.success
              /\ response.body.content = req.result.content
        /\ response.status # 200 =>
              \/ req.body = "" /\ response.status = 400
              \/ /\ req.body # "" /\ response.status = 500
                 /\ req.result # NoResult /\ ~req.result.success

(***************************************************************************)
(* Properties of the listing route's authorization (SpecQuery)             *)
(***************************************************************************)
\* The header names the Bearer scheme and carries a credential.
BearerCredential(h) == Len(h) = 3 /\ h[1] = "Bearer" /\ h[2] = " "

\* C23: the listing route queries the store and answers with records only
\* for a request whose Authorization header carries a bearer credential,
\* whatever the credential is; any other request is answered 401, without a
\* query and before the tokenId is looked at, and a non-numeric tokenId is
\* answered 400 only when the credential is there.
C23_BearerPresenceOnly ==
    /\ [](listing.pc # "idle" =>
            IF ~BearerCredential(listing.auth)
              THEN /\ listing.pc = "responded" /\ listing.status = 401
                   /\ listing.records = <<>>
            ELSE IF ParseInt(listing.param) = <<>>
              THEN listing.pc = "responded" /\ listing.status = 400
            ELSE listing.pc = "query" \/ listing.status \in {200, 500})
    /\ [][listing'.status = 401 => listing.pc # "query"]_vars

\* A request without a credential and with a non-numeric tokenId has been
\* answered 401, after a request with a credential was answered with a
\* record.
C23_Witness ==
    /\ listing.status = 401
    /\ listing.auth = <<"Bearer">>
    /\ listing.param = "abc"
    /\ Len(rows) = 1

(***************************************************************************)
(* Properties of an upload run after a failure (Spec)                      *)
(***************************************************************************)
\* C24: when extractMaintenanceInfo throws for the file at index i of a run,
\* entry i gets status error, percent 100 and the error as response, and the
\* loop goes on with the file at i + 1 if there is one; when a run ends,
\* every progress entry is completed or error with percent 100, isUploading
\* is false and uploadFiles is empty.
C24_FailureDoesNotStop ==
    [][\A k \in RunIds :
         (runs[k].active /\ runs'[k] # runs[k] /\ runs'[k].clean = runs[k].clean) =>
            LET i == runs[k].i
            IN  /\ consoleError' = "upload" =>
                      /\ Len(uploadProgress') >= i + 1
                      /\ uploadProgress'[i + 1].status = "error"
                      /\ uploadProgress'[i + 1].percent = 100
                      /\ uploadProgress'[i + 1].response.kind = "error"
                      /\ uploadProgress'[i + 1].response.error # ""
                      /\ i + 1 < Len(uploadFiles) =>
                            /\ runs'[k].active
                            /\ runs'[k].i = i + 1
                            /\ runs'[k].file = FileAt(uploadFiles, i + 1)
                /\ ~runs'[k].active =>
                      /\ \A j \in 1 .. Len(uploadProgress') :
                            /\ uploadProgress'[j].status \in {"completed", "error"}
                            /\ uploadProgress'[j].percent = 100
                      /\ ~isUploading'
                      /\ uploadFiles' = <<>>
      ]_vars

(***************************************************************************)
(* Properties of the loading guard (SpecLoad)                              *)
(***************************************************************************)
\* C25: at most one execution of loadVehicleDetails is between isLoading =
\* true and its finally block: isLoading is true exactly while an execution
\* awaits a fetch, a call made while isLoading is true issues no fetch and
\* leaves vehicle, error and the awaited fetch as they are, and the step that
\* ends an execution, whatever its outcome, leaves isLoading false.
C25_OneLoadAtATime ==
    /\ [](isLoading <=> loadPc # "idle")
    /\ [][/\ consoleError' = "skipped" =>
                /\ isLoading /\ isLoading'
                /\ <<loadPc, loadTok, loadChain, backendData>>' =
                       <<loadPc, loadTok, loadChain, backendData>>
                /\ vehicle' = vehicle
                /\ error' = error
          /\ (isLoading /\ loadPc' = "identity") =>
                (loadPc = "identity" /\ loadTok' = loadTok)
          /\ (loadPc # "idle" /\ loadPc' = "idle") => ~isLoading'
         ]_vars

\* A call was skipped while the telemetry fetch of a load was awaited.
C25_Witness ==
    /\ consoleError = "skipped"
    /\ isLoading
    /\ loadPc = "telemetry"

\* C26: whenever no load is in flight, error is empty and a vehicle is held,
\* that vehicle was fetched for the current tokenId; and the telemetry a
\* load receives was fetched for the tokenId its identity data was fetched
\* for.
C26_VehicleOfCurrentToken ==
    /\ []((~isLoading /\ error = "" /\ vehicle.present) => vehicle.tokenId = tokenId)
    /\ [][(loadPc = "telemetry" /\ loadPc' = "idle") => loadTok = vehicle.tokenId]_vars

(***************************************************************************)
(* Properties of the files of an upload run (Spec)                         *)
(***************************************************************************)
\* The number of positions of the sequence seq that hold x.
Occurrences(seq, x) == Cardinality({j \in 1 .. Len(seq) : seq[j] = x})

\* A coroutine that began while no other was awaiting, in a modal that has
\* not been closed since.
Undisturbed(k) == runs[k].active /\ runs[k].alone /\ ~runs[k].stale

\* C27: in an upload run, also one during which addFiles or removeFile is
\* invoked while a response is awaited, entry i of uploadProgress carries the
\* name of the file sent as the i-th request, and when the run ends every
\* file that is still selected has been sent.
C27_EveryFileSent ==
    /\ [](\A k \in RunIds :
            Undisturbed(k) =>
               /\ Len(uploadProgress) = runs[k].i + 1
               /\ uploadProgress[runs[k].i + 1].filename = runs[k].file)
    /\ [][\A k \in RunIds :
            (Undisturbed(k) /\ ~runs'[k].stale) =>
               /\ \A j \in 1 .. Len(uploadProgress) :
                     /\ Len(uploadProgress') >= j
                     /\ uploadProgress'[j].filename = uploadProgress[j].filename
               /\ ~runs'[k].active =>
                     \A f \in Files :
                        Occurrences(uploadFiles, f) <=
                           Occurrences([j \in 1 .. Len(uploadProgress') |->
                                           uploadProgress'[j].filename], f)
         ]_vars

(***************************************************************************)
(* Properties of the INSERT of the extraction route (SpecRoute)            *)
(***************************************************************************)
\* C28: a request whose tokenId is missing, 0 or not a number gets tokenId
\* null: its INSERT is rejected and no row is persisted, while the response
\* is 200 with success true, the content and parsed; and a reachable store
\* rejects an INSERT only for such a tokenId or a missing outputText.
C28_RejectedOnlyForTokenId ==
    (req.pc = "responded" /\ req.inserted # "none") =>
        /\ TokenIdOf(req.rawTokenId) = Null =>
              /\ req.inserted = "failed"
              /\ \A j \in 1 .. Len(rows) : rows[j].id # req.row[1].id
              /\ response.status = 200
              /\ response.body.success
              /\ response.body.content = req.result.content
              /\ response.body.hasParsed /\ response.body.parsed = req.parsed
        /\ (req.dbUp /\ req.inserted = "failed") =>
              \/ TokenIdOf(req.rawTokenId) = Null
              \/ req.row[1].output_text = Null

\* C30: the total_cost of the row the route inserts is parseMoney of the
\* parsed output's totalCost whenever that field is present and not null,
\* the number 0 included; total_cost or amount is used only when totalCost is
\* absent or null.
C30_ZeroCostStored ==
    (req.pc \in {"insert", "responded"} /\ req.row # <<>>) =>
        LET totalCost == Field(req.parsed, "totalCost")
        IN  req.row[1].total_cost =
               IF totalCost # Null THEN ParseMoney(ValueOf(totalCost))
               ELSE ParseMoney(ValueOf(FirstOf(Field(req.parsed, "total_cost"),
                                               Field(req.parsed, "amount"), Null)))

(***************************************************************************)
(* Properties of the configuration routes (SpecConfig)                     *)
(***************************************************************************)
\* C29: while no configuration is stored (no POST has succeeded, or a DELETE
\* has succeeded since the last one that did), GET and DELETE /api/config
\* answer 404, and POST /api/auth/developer and GET /api/vehicle-details-info
\* answer 400 without calling the DIMO SDK; a POST /api/config without
\* clientId or apiKey answers 400 and leaves the stored configuration as it
\* is.
C29_NoConfiguration ==
    [][(config' # config /\ config'.last # NoAnswer) =>
          LET a == config'.last
          IN  /\ (~config.configured /\ a.endpoint \in
                       {"GET /api/config", "DELETE /api/config"}) => a.status = 404
              /\ (~config.configured /\ a.endpoint \in ConfigEndpoints) =>
                    (a.status = 400 /\ ~a.sdk)
              /\ (a.endpoint = "POST /api/config" /\ a.status = 400) =>
                    config'.file = config.file
      ]_vars

====
